---------------------------- MODULE Spec2Model ----------------------------
(***************************************************************************)
(* The class-name resolution engine of eslint-plugin-tailwind-v4, rule     *)
(* no-undefined-classes (src/rules/no-undefined-classes.js).               *)
(*                                                                         *)
(* Text (stylesheets, import paths, class names) is a sequence of          *)
(* one-character strings, so that the regular expressions of the rule act  *)
(* on characters as they do in the source.  A regular expression is a term *)
(* (Lit, In, NotIn, AnyChar, Bol, Eol, Cat, Alt, Rep, Grp) and Match is a  *)
(* backtracking matcher that returns the ways a term can match in the      *)
(* order a JavaScript engine tries them.                                   *)
(***************************************************************************)
EXTENDS Integers, Sequences, FiniteSets, TLC

\* ------------------------------------------------------------------------
\* Characters
\* ------------------------------------------------------------------------

Lower == {"a","b","c","d","e","f","g","h","i","j","k","l","m",
          "n","o","p","q","r","s","t","u","v","w","x","y","z"}
Upper == {"A","B","C","D","E","F","G","H","I","J","K","L","M",
          "N","O","P","Q","R","S","T","U","V","W","X","Y","Z"}
Digit == {"0","1","2","3","4","5","6","7","8","9"}
\* \w, \s and the line terminators "." does not match
WordChar == Lower \cup Upper \cup Digit \cup {"_"}
WhiteSpace == {" ", "\t", "\n", "\r"}
LineTerminator == {"\n", "\r"}

\* ------------------------------------------------------------------------
\* Regular expressions
\* ------------------------------------------------------------------------

Lit(w) == [t |-> "lit", w |-> w]
In(cs) == [t |-> "set", cs |-> cs, pos |-> TRUE]
NotIn(cs) == [t |-> "set", cs |-> cs, pos |-> FALSE]
AnyChar == [t |-> "any"]
Bol == [t |-> "bol"]
Eol == [t |-> "eol"]
Cat(rs) == [t |-> "cat", rs |-> rs]
Alt(rs) == [t |-> "alt", rs |-> rs]
Rep(r, lo, one, greedy) == [t |-> "rep", r |-> r, lo |-> lo, one |-> one, greedy |-> greedy]
Grp(k, r) == [t |-> "grp", k |-> k, r |-> r]
\* r*, r+, r? and their lazy forms r*?, r+?, r??
Star(r) == Rep(r, 0, FALSE, TRUE)
Plus(r) == Rep(r, 1, FALSE, TRUE)
Opt(r) == Rep(r, 0, TRUE, TRUE)
StarLazy(r) == Rep(r, 0, FALSE, FALSE)
PlusLazy(r) == Rep(r, 1, FALSE, FALSE)
OptLazy(r) == Rep(r, 0, TRUE, FALSE)

\* A capture is <<first, next>>: the captured text is s[first .. next-1];
\* <<0, 0>> is a group that did not take part in the match (undefined).
NoCapture == <<0, 0>>
NoGroups(n) == [k \in 1..n |-> NoCapture]

\* the concatenation of the sequences ss[lo], ..., ss[hi]
RECURSIVE Flatten(_, _, _)
Flatten(ss, lo, hi) ==
    IF lo > hi THEN << >>
    ELSE IF lo = hi THEN ss[lo]
    ELSE LET mid == (lo + hi) \div 2
         IN  Flatten(ss, lo, mid) \o Flatten(ss, mid + 1, hi)

\* the least element of a non-empty set of integers
Least(S) == CHOOSE x \in S : \A y \in S : x <= y

\* whether the one-character term r (a class or ".") accepts character c
Accepts(r, c) == IF r.t = "any" THEN TRUE ELSE (c \in r.cs) <=> r.pos

\* the least element of S, or d when S is empty
LeastOr(S, d) == IF S = {} THEN d ELSE Least(S)

\* the length of the longest run of characters r accepts from position i
RunLength(r, s, i) == LeastOr({k \in i..Len(s) : ~Accepts(r, s[k])}, Len(s) + 1) - i

\* Match(r, s, i, g): the matches of r in s that start at position i, with
\* the captures so far g, as a sequence of <<next position, captures>> in
\* the order a backtracking engine tries them (the first is the one taken).
RECURSIVE Match(_, _, _, _), MatchCat(_, _, _, _), MatchRep(_, _, _, _, _)

\* r matched from each of the starts, in order
MatchEach(r, s, starts) ==
    Flatten([j \in 1..Len(starts) |-> Match(r, s, starts[j][1], starts[j][2])],
            1, Len(starts))

MatchCat(rs, k, s, starts) ==
    IF k > Len(rs) \/ starts = << >> THEN starts
    ELSE MatchCat(rs, k + 1, s, MatchEach(rs[k], s, starts))

MatchAlt(rs, s, i, g) ==
    Flatten([k \in 1..Len(rs) |-> Match(rs[k], s, i, g)], 1, Len(rs))

\* a repetition of a one-character term over a run of hi characters: it can
\* stop after lo..hi of them, the longest first when greedy and the shortest
\* first when lazy
RunStops(r, i, g, hi) ==
    [j \in 1..(hi - r.lo + 1) |->
       <<IF r.greedy THEN i + hi + 1 - j ELSE i + r.lo + j - 1, g>>]

AtMostOne(one, run) == IF one /\ run > 1 THEN 1 ELSE run

MatchRun(r, s, i, g) == RunStops(r, i, g, AtMostOne(r.one, RunLength(r.r, s, i)))

\* a repetition of any other term, after n iterations: the matches that go on
\* after one more iteration (an iteration that consumes nothing is not
\* repeated) and the match that stops here, in the order of preference
RepMore(r, n, s, i, once) ==
    Flatten([j \in 1..Len(once) |->
               IF once[j][1] > i THEN MatchRep(r, n + 1, s, once[j][1], once[j][2])
               ELSE << >>], 1, Len(once))

InOrder(greedy, more, stop) == IF greedy THEN more \o stop ELSE stop \o more

MatchRep(r, n, s, i, g) ==
    InOrder(r.greedy,
            RepMore(r, n, s, i, IF r.one /\ n >= 1 THEN << >> ELSE Match(r.r, s, i, g)),
            IF n >= r.lo THEN << <<i, g>> >> ELSE << >>)

\* the matches of a group: capture k is the text from i to the end of each
SetGroup(k, i, in) ==
    [j \in 1..Len(in) |-> <<in[j][1], [in[j][2] EXCEPT ![k] = <<i, in[j][1]>>]>>]

Match(r, s, i, g) ==
    CASE r.t = "lit" -> IF i + Len(r.w) - 1 <= Len(s) /\ SubSeq(s, i, i + Len(r.w) - 1) = r.w
                        THEN << <<i + Len(r.w), g>> >> ELSE << >>
      [] r.t = "set" -> IF i <= Len(s) /\ Accepts(r, s[i])
                        THEN << <<i + 1, g>> >> ELSE << >>
      [] r.t = "any" -> IF i <= Len(s) THEN << <<i + 1, g>> >> ELSE << >>
      [] r.t = "bol" -> IF i = 1 THEN << <<i, g>> >> ELSE << >>
      [] r.t = "eol" -> IF i = Len(s) + 1 THEN << <<i, g>> >> ELSE << >>
      [] r.t = "cat" -> MatchCat(r.rs, 1, s, << <<i, g>> >>)
      [] r.t = "alt" -> MatchAlt(r.rs, s, i, g)
      [] r.t = "rep" -> IF r.r.t \in {"set", "any"} THEN MatchRun(r, s, i, g)
                        ELSE MatchRep(r, 0, s, i, g)
      [] r.t = "grp" -> SetGroup(r.k, i, Match(r.r, s, i, g))

\* a term that starts with ^ can only match at position 1
Anchored(r) == r.t = "bol" \/ (r.t = "cat" /\ r.rs # << >> /\ r.rs[1].t = "bol")

\* RegExp.prototype.test without the g flag: some position starts a match
Test(r, s) ==
    \E i \in (IF Anchored(r) THEN {1} ELSE 1..(Len(s) + 1)) : Match(r, s, i, << >>) # << >>

\* RegExp.prototype.exec: the leftmost match at or after position from, as
\* [first, next, g], or Nil when there is none.  n is the number of groups.
Nil == [nil |-> TRUE]

\* the first of the matches ms[i] found at the positions i
MatchAt(i, m) == [first |-> i, next |-> m[1][1], g |-> m[1][2]]
FirstAt(ms, i) == IF i = 0 THEN Nil ELSE MatchAt(i, ms[i])
Leftmost(ms) == FirstAt(ms, LeastOr({i \in DOMAIN ms : ms[i] # << >>}, 0))

Exec(r, n, s, from) ==
    Leftmost([i \in from..(Len(s) + 1) |-> Match(r, s, i, NoGroups(n))])

\* the loop "while ((match = regex.exec(text)) !== null)" of a g-flagged
\* regex: every match, left to right, each search starting at lastIndex
RECURSIVE ExecAll(_, _, _, _)
ExecNext(r, n, s, m) ==
    IF m = Nil THEN << >>
    ELSE <<m>> \o ExecAll(r, n, s, IF m.next > m.first THEN m.next ELSE m.next + 1)

ExecAll(r, n, s, from) == ExecNext(r, n, s, Exec(r, n, s, from))

\* the text of capture k of a match (<< >> when undefined)
Captured(s, m, k) == SubSeq(s, m.g[k][1], m.g[k][2] - 1)
Defined(m, k) == m.g[k] # NoCapture

\* ------------------------------------------------------------------------
\* Text
\* ------------------------------------------------------------------------

Range(f) == {f[k] : k \in DOMAIN f}

\* String.prototype.startsWith, substring(n)
StartsWith(s, p) == Len(p) <= Len(s) /\ SubSeq(s, 1, Len(p)) = p
Substring(s, n) == SubSeq(s, n + 1, Len(s))

\* the elements of a set of integers in increasing order
SortedSeq(S) ==
    [j \in 1..Cardinality(S) |-> CHOOSE x \in S : Cardinality({y \in S : y < x}) = j - 1]

\* the pieces of s between the matches ms (left to right, not overlapping),
\* each piece but the last followed by rep
Pieces(s, ms, rep) ==
    LET n == Len(ms)
    IN  [j \in 1..(n + 1) |->
           SubSeq(s, IF j = 1 THEN 1 ELSE ms[j - 1].next,
                     IF j > n THEN Len(s) ELSE ms[j].first - 1)
           \o (IF j > n THEN << >> ELSE rep)]

Join(ps) == Flatten(ps, 1, Len(ps))

\* String.prototype.replace(/r/g, rep): every match replaced
ReplaceAll(s, r, rep) ==
    IF s = << >> THEN s ELSE Join(Pieces(s, ExecAll(r, 0, s, 1), rep))

\* String.prototype.replace(r, rep) without the g flag: the first match replaced
ReplaceMatch(s, m, rep) ==
    IF m = Nil THEN s
    ELSE SubSeq(s, 1, m.first - 1) \o rep \o SubSeq(s, m.next, Len(s))

ReplaceFirst(s, r, rep) == ReplaceMatch(s, Exec(r, 0, s, 1), rep)

\* String.prototype.split(r).filter(x => x.length > 0)
SplitNonEmpty(s, r) ==
    SelectSeq(Pieces(s, ExecAll(r, 0, s, 1), << >>), LAMBDA x : x # << >>)

\* the texts captured by group k in the matches ms of s
CapturedEach(s, ms, k) == [j \in 1..Len(ms) |-> Captured(s, ms[j], k)]

\* the texts captured by group k in every match of r (with n groups) in s
Captures(r, n, s, k) == CapturedEach(s, ExecAll(r, n, s, 1), k)

\* ------------------------------------------------------------------------
\* Paths (Node's path module, POSIX) on absolute paths
\* ------------------------------------------------------------------------

Positions(s, c) == {k \in 1..Len(s) : s[k] = c}
Greatest(S) == CHOOSE x \in S : \A y \in S : y <= x

SplitOn(s, c) ==
    LET cuts == SortedSeq(Positions(s, c))
        n == Len(cuts)
    IN  [j \in 1..(n + 1) |->
           SubSeq(s, IF j = 1 THEN 1 ELSE cuts[j - 1] + 1,
                     IF j > n THEN Len(s) ELSE cuts[j] - 1)]

\* the segments with "." and empty segments dropped and ".." resolved
RECURSIVE Normalize(_, _, _)
Normalize(segs, k, acc) ==
    IF k > Len(segs) THEN acc
    ELSE Normalize(segs, k + 1,
           IF segs[k] = << >> \/ segs[k] = <<".">> THEN acc
           ELSE IF segs[k] = <<".",".">> THEN (IF acc = << >> THEN acc ELSE SubSeq(acc, 1, Len(acc) - 1))
           ELSE Append(acc, segs[k]))

JoinPath(segs) ==
    IF segs = << >> THEN <<"/">>
    ELSE Flatten([k \in 1..Len(segs) |-> <<"/">> \o segs[k]], 1, Len(segs))

\* path.resolve(from, to), from absolute
resolve(from, to) ==
    JoinPath(Normalize(SplitOn(IF StartsWith(to, <<"/">>) THEN to ELSE from \o <<"/">> \o to, "/"),
                       1, << >>))

\* path.dirname, path.basename and path.extname of a resolved path
dirname(p) ==
    LET last == Greatest(Positions(p, "/"))
    IN  IF last <= 1 THEN <<"/">> ELSE SubSeq(p, 1, last - 1)

basename(p) == SubSeq(p, Greatest(Positions(p, "/")) + 1, Len(p))

extname(p) ==
    LET b == basename(p)
        dots == Positions(b, ".")
    IN  IF dots = {} \/ Greatest(dots) = 1 THEN << >>
        ELSE SubSeq(b, Greatest(dots), Len(b))

\* ------------------------------------------------------------------------
\* Stylesheet scanning (src/rules/no-undefined-classes.js)
\* ------------------------------------------------------------------------

\* detectTailwindImport: the declaration forms (lines 124-128), in the order of the source
tailwindImportPatterns == <<
    Cat(<<Lit(<<"@","i","m","p","o","r","t">>), Plus(In(WhiteSpace)), In({"\"","'"}), Lit(<<"t","a","i","l","w","i","n","d","c","s","s">>), In({"\"","'"})>>),
    Cat(<<Lit(<<"@","i","m","p","o","r","t">>), Plus(In(WhiteSpace)), Lit(<<"u","r","l","(">>), Opt(In({"\"","'"})), Lit(<<"t","a","i","l","w","i","n","d","c","s","s">>), Opt(In({"\"","'"})), Lit(<<")">>)>>),
    Cat(<<Lit(<<"@","t","a","i","l","w","i","n","d">>), Plus(In(WhiteSpace)), Alt(<<Lit(<<"b","a","s","e">>), Lit(<<"c","o","m","p","o","n","e","n","t","s">>), Lit(<<"u","t","i","l","i","t","i","e","s">>)>>)>>),
    Cat(<<Lit(<<"@","i","m","p","o","r","t">>), Plus(In(WhiteSpace)), In({"\"","'"}), Lit(<<"t","a","i","l","w","i","n","d","c","s","s","/">>), Star(NotIn({"\"","'"})), In({"\"","'"})>>),
    Cat(<<Lit(<<"@","t","h","e","m","e">>), Star(In(WhiteSpace)), Lit(<<"{">>)>>)
>>
\* the regular expression of line 140
importRegex == Cat(<<Lit(<<"@","i","m","p","o","r","t">>), Plus(In(WhiteSpace)), In({"\"","'"}), Grp(1, Plus(NotIn({"\"","'"}))), In({"\"","'"}), Opt(Lit(<<";">>))>>)
\* the regular expression of line 208
utilityRegex == Cat(<<Lit(<<".">>), Grp(1, Cat(<<In(Lower \cup Upper \cup {"@"}), Star(In(WordChar \cup {"-"})), Star(Cat(<<Lit(<<"\\">>), Plus(In(WordChar \cup {"/",".",":","[","]"})), Star(In(WordChar \cup {"-"}))>>))>>)), Star(In(WhiteSpace)), Lit(<<"{">>)>>)
\* the regular expression of line 241
themeBlockRegex == Cat(<<Lit(<<"@","t","h","e","m","e">>), Star(In(WhiteSpace)), Lit(<<"{">>), Grp(1, StarLazy(AnyChar)), Lit(<<"}">>)>>)
\* the regular expression of line 253
variableRegex == Cat(<<Lit(<<"-","-">>), Grp(1, Cat(<<In(Lower \cup Upper), Star(In(WordChar \cup {"-"}))>>)), Star(In(WhiteSpace)), Lit(<<":">>), Star(In(WhiteSpace)), Grp(2, Plus(NotIn({";"}))), Lit(<<";">>)>>)
\* the regular expression of line 275
utilityDefRegex == Cat(<<Lit(<<"@","u","t","i","l","i","t","y">>), Plus(In(WhiteSpace)), Grp(1, Cat(<<In(Lower \cup Upper), Star(In(WordChar \cup {"-"}))>>))>>)
\* the regular expression of line 293
layerRegex == Cat(<<Lit(<<"@","l","a","y","e","r">>), Plus(In(WhiteSpace)), Grp(1, Alt(<<Lit(<<"b","a","s","e">>), Lit(<<"c","o","m","p","o","n","e","n","t","s">>), Lit(<<"u","t","i","l","i","t","i","e","s">>)>>)), Star(In(WhiteSpace)), Lit(<<"{">>), Grp(2, Cat(<<Star(Cat(<<Star(NotIn({"{","}"})), Lit(<<"{">>), Star(NotIn({"{","}"})), Lit(<<"}">>), Star(NotIn({"{","}"}))>>)), Star(NotIn({"{","}"}))>>)), Lit(<<"}">>)>>)
\* the regular expression of line 307
layerUtilityRegex == Cat(<<Lit(<<".">>), Grp(1, Cat(<<In(Lower \cup Upper \cup {"@"}), Star(In(WordChar \cup {"-"})), Star(Cat(<<Lit(<<"\\">>), Plus(In(WordChar \cup {"/",".",":","[","]"})), Star(In(WordChar \cup {"-"}))>>))>>)), Star(In(WhiteSpace)), Lit(<<"{">>)>>)
\* the regular expression of line 340
gradientRegex == Cat(<<Lit(<<".">>), Grp(1, Alt(<<Lit(<<"f","r","o","m">>), Lit(<<"v","i","a">>), Lit(<<"t","o">>)>>)), Lit(<<"-">>), Grp(2, Cat(<<In(Lower \cup Upper), Star(In(WordChar \cup {"-"}))>>)), Star(In(WhiteSpace)), Lit(<<"{">>)>>)

\* Array.prototype.some(pattern => pattern.test(text))
Some(patterns, text) == \E k \in 1..Len(patterns) : Test(patterns[k], text)

\* a detection that knows the import forms and not the theme block
detectImportsOnly(cssContent, flag) ==
    IF Some(SubSeq(tailwindImportPatterns, 1, 4), cssContent) THEN TRUE ELSE flag

\* a detection that keeps only what the last stylesheet shows
detectLast(cssContent, flag) == Some(tailwindImportPatterns, cssContent)

\* detectTailwindImport: the flag is set when a declaration form is found and
\* is left as it was otherwise
detectTailwindImport(cssContent, flag) ==
    IF Some(tailwindImportPatterns, cssContent) THEN TRUE ELSE flag

\* the chain of replace calls that turns an escaped selector into a class
\* name: each escape is replaced everywhere, in the order of the source
escapes == <<
    <<<<"\\",":">>, <<":">>>>, <<<<"\\","/">>, <<"/">>>>, <<<<"\\",".">>, <<".">>>>, <<<<"\\","[">>, <<"[">>>>,
    <<<<"\\","]">>, <<"]">>>>, <<<<"\\","(">>, <<"(">>>>, <<<<"\\",")">>, <<")">>>>, <<<<"\\","-">>, <<"-">>>>,
    <<<<"\\","\\">>, <<"\\">>>> >>

RECURSIVE ReplaceEach(_, _, _)
ReplaceEach(className, pairs, k) ==
    IF k > Len(pairs) THEN className
    ELSE ReplaceEach(ReplaceAll(className, Lit(pairs[k][1]), pairs[k][2]), pairs, k + 1)

\* a name kept as the stylesheet writes it
asWritten(className) == className

unescape(className) == ReplaceEach(className, escapes, 1)

\* The extraction functions add to customClasses and foundThemeVariables and
\* never remove: each is modelled by the set of names it adds.

\* extractExplicitClasses: the selectors found, which are added to the
\* file's explicit set and to customClasses
extractExplicitClasses(cssContent) ==
    {unescape(n) : n \in Range(Captures(utilityRegex, 1, cssContent, 1))}

\* extractGradientUtilities
GradientNames(cssContent, ms) ==
    {Captured(cssContent, ms[j], 1) \o <<"-">> \o Captured(cssContent, ms[j], 2) : j \in 1..Len(ms)}

extractGradientUtilities(cssContent) ==
    GradientNames(cssContent, ExecAll(gradientRegex, 2, cssContent, 1))

\* a generator adds the classes of its list that the file does not declare itself
UnlessExplicit(classes, explicitClasses) ==
    {cls \in Range(classes) : cls \notin explicitClasses}

colorUtilities(colorName) == <<
    <<"t","e","x","t","-">> \o colorName, <<"b","g","-">> \o colorName, <<"b","o","r","d","e","r","-">> \o colorName,
    <<"d","e","c","o","r","a","t","i","o","n","-">> \o colorName, <<"o","u","t","l","i","n","e","-">> \o colorName, <<"r","i","n","g","-">> \o colorName,
    <<"r","i","n","g","-","o","f","f","s","e","t","-">> \o colorName, <<"s","h","a","d","o","w","-">> \o colorName, <<"a","c","c","e","n","t","-">> \o colorName,
    <<"c","a","r","e","t","-">> \o colorName, <<"f","i","l","l","-">> \o colorName, <<"s","t","r","o","k","e","-">> \o colorName,
    <<"f","r","o","m","-">> \o colorName, <<"v","i","a","-">> \o colorName, <<"t","o","-">> \o colorName,
    <<"b","o","r","d","e","r","-","t","-">> \o colorName, <<"b","o","r","d","e","r","-","r","-">> \o colorName, <<"b","o","r","d","e","r","-","b","-">> \o colorName,
    <<"b","o","r","d","e","r","-","l","-">> \o colorName, <<"b","o","r","d","e","r","-","x","-">> \o colorName, <<"b","o","r","d","e","r","-","y","-">> \o colorName,
    <<"b","o","r","d","e","r","-","s","-">> \o colorName, <<"b","o","r","d","e","r","-","e","-">> \o colorName,
    <<"b","o","r","d","e","r","-","i","s","-">> \o colorName, <<"b","o","r","d","e","r","-","i","e","-">> \o colorName,
    <<"b","o","r","d","e","r","-","b","s","-">> \o colorName, <<"b","o","r","d","e","r","-","b","e","-">> \o colorName,
    <<"d","i","v","i","d","e","-">> \o colorName >>

\* a generator that derives nothing
generateNothing(varName, explicitClasses) == {}

generateColorUtilities(varName, explicitClasses) ==
    IF ~StartsWith(varName, <<"c","o","l","o","r","-">>) THEN {}
    ELSE UnlessExplicit(colorUtilities(Substring(varName, 6)), explicitClasses)

generateAnimationUtilities(varName, explicitClasses) ==
    IF ~StartsWith(varName, <<"a","n","i","m","a","t","e","-">>) THEN {}
    ELSE UnlessExplicit(<<<<"a","n","i","m","a","t","e","-">> \o Substring(varName, 8)>>, explicitClasses)

generateShadowUtilities(varName, explicitClasses) ==
    IF ~StartsWith(varName, <<"s","h","a","d","o","w","-">>) THEN {}
    ELSE UnlessExplicit(<<<<"s","h","a","d","o","w","-">> \o Substring(varName, 7)>>, explicitClasses)

generateRadiusUtilities(varName, explicitClasses) ==
    IF ~StartsWith(varName, <<"r","a","d","i","u","s","-">>) THEN {}
    ELSE UnlessExplicit(<<<<"r","o","u","n","d","e","d","-">> \o Substring(varName, 7)>>, explicitClasses)

spacingPrefixes == <<<<"p">>, <<"m">>, <<"p","x">>, <<"p","y">>, <<"p","t">>, <<"p","r">>, <<"p","b">>, <<"p","l">>, <<"m","x">>, <<"m","y">>,
                     <<"m","t">>, <<"m","r">>, <<"m","b">>, <<"m","l">>, <<"g","a","p">>, <<"s","p","a","c","e","-","x">>, <<"s","p","a","c","e","-","y">>>>

SpacingUtilitiesOf(spacingName) ==
    [k \in 1..Len(spacingPrefixes) |-> spacingPrefixes[k] \o <<"-">> \o spacingName]

generateSpacingUtilities(varName, explicitClasses) ==
    IF ~StartsWith(varName, <<"s","p","a","c","i","n","g","-">>) THEN {}
    ELSE UnlessExplicit(SpacingUtilitiesOf(Substring(varName, 8)), explicitClasses)

generateTextUtilities(varName, explicitClasses) ==
    IF ~StartsWith(varName, <<"t","e","x","t","-">>) THEN {}
    ELSE UnlessExplicit(<<<<"t","e","x","t","-">> \o Substring(varName, 5)>>, explicitClasses)

generateFontFamilyUtilities(varName, explicitClasses) ==
    IF ~StartsWith(varName, <<"f","o","n","t","-","f","a","m","i","l","y","-">>) THEN {}
    ELSE UnlessExplicit(<<<<"f","o","n","t","-">> \o Substring(varName, 12)>>, explicitClasses)

generateFontWeightUtilities(varName, explicitClasses) ==
    IF ~StartsWith(varName, <<"f","o","n","t","-","w","e","i","g","h","t","-">>) THEN {}
    ELSE UnlessExplicit(<<<<"f","o","n","t","-">> \o Substring(varName, 12)>>, explicitClasses)

generateFontSizeUtilities(varName, explicitClasses) ==
    IF ~StartsWith(varName, <<"f","o","n","t","-","s","i","z","e","-">>) THEN {}
    ELSE UnlessExplicit(<<<<"t","e","x","t","-">> \o Substring(varName, 10)>>, explicitClasses)

\* generateUtilitiesFromVariable: what the nine generators add
generateUtilitiesFromVariable(varName, explicitClasses) ==
    generateColorUtilities(varName, explicitClasses)
    \cup generateAnimationUtilities(varName, explicitClasses)
    \cup generateShadowUtilities(varName, explicitClasses)
    \cup generateRadiusUtilities(varName, explicitClasses)
    \cup generateSpacingUtilities(varName, explicitClasses)
    \cup generateTextUtilities(varName, explicitClasses)
    \cup generateFontFamilyUtilities(varName, explicitClasses)
    \cup generateFontWeightUtilities(varName, explicitClasses)
    \cup generateFontSizeUtilities(varName, explicitClasses)

\* the variables declared in the theme blocks of a stylesheet
VariablesIn(blocks) ==
    UNION {Range(Captures(variableRegex, 2, blocks[b], 1)) : b \in 1..Len(blocks)}

ThemeVariablesOf(cssContent) == VariablesIn(Captures(themeBlockRegex, 1, cssContent, 1))

\* extractThemeVariables: every declared variable is recorded in
\* foundThemeVariables and expanded into customClasses
ThemeAdditions(names, explicitClasses) ==
    [customClasses |-> UNION {generateUtilitiesFromVariable(v, explicitClasses) : v \in names},
     foundThemeVariables |-> names]

extractThemeVariables(cssContent, explicitClasses) ==
    ThemeAdditions(ThemeVariablesOf(cssContent), explicitClasses)

\* extractUtilityDefinitions
extractUtilityDefinitions(cssContent) == Range(Captures(utilityDefRegex, 1, cssContent, 1))

\* extractLayerDefinitions: the selectors inside the layer blocks
SelectorsIn(layers) ==
    UNION {{unescape(n) : n \in Range(Captures(layerUtilityRegex, 1, layers[b], 1))} :
             b \in 1..Len(layers)}

extractLayerDefinitions(cssContent) == SelectorsIn(Captures(layerRegex, 2, cssContent, 2))

\* the selectors of the stylesheet kept in its explicit set only
WithoutExplicit(cssContent, explicitClasses, theme) ==
    [customClasses |-> extractGradientUtilities(cssContent)
                       \cup theme.customClasses
                       \cup extractUtilityDefinitions(cssContent)
                       \cup extractLayerDefinitions(cssContent),
     foundThemeVariables |-> theme.foundThemeVariables]

\* extractCustomClasses: what the five extractions add over one stylesheet,
\* the explicit set being that of this stylesheet alone
WithExplicit(cssContent, explicitClasses, theme) ==
    [customClasses |-> explicitClasses
                       \cup extractGradientUtilities(cssContent)
                       \cup theme.customClasses
                       \cup extractUtilityDefinitions(cssContent)
                       \cup extractLayerDefinitions(cssContent),
     foundThemeVariables |-> theme.foundThemeVariables]

ExtractGiven(cssContent, explicitClasses) ==
    WithExplicit(cssContent, explicitClasses, extractThemeVariables(cssContent, explicitClasses))

extractCustomClasses(cssContent) == ExtractGiven(cssContent, extractExplicitClasses(cssContent))

\* ------------------------------------------------------------------------
\* Class-name classification (src/rules/no-undefined-classes.js)
\* ------------------------------------------------------------------------

\* isOverridableUtility: the default scale slots (lines 621-630), in the order of the source
overridablePatterns == <<
    Cat(<<Bol, Lit(<<"t","e","x","t","-">>), Alt(<<Lit(<<"x","s">>), Lit(<<"s","m">>), Lit(<<"b","a","s","e">>), Lit(<<"l","g">>), Lit(<<"x","l">>), Lit(<<"2","x","l">>), Lit(<<"3","x","l">>), Lit(<<"4","x","l">>), Lit(<<"5","x","l">>), Lit(<<"6","x","l">>), Lit(<<"7","x","l">>), Lit(<<"8","x","l">>), Lit(<<"9","x","l">>)>>), Eol>>),
    Cat(<<Bol, Lit(<<"f","o","n","t","-">>), Alt(<<Lit(<<"t","h","i","n">>), Lit(<<"e","x","t","r","a","l","i","g","h","t">>), Lit(<<"l","i","g","h","t">>), Lit(<<"n","o","r","m","a","l">>), Lit(<<"m","e","d","i","u","m">>), Lit(<<"s","e","m","i","b","o","l","d">>), Lit(<<"b","o","l","d">>), Lit(<<"e","x","t","r","a","b","o","l","d">>), Lit(<<"b","l","a","c","k">>)>>), Eol>>),
    Cat(<<Bol, Lit(<<"f","o","n","t","-">>), Alt(<<Lit(<<"s","a","n","s">>), Lit(<<"s","e","r","i","f">>), Lit(<<"m","o","n","o">>)>>), Eol>>),
    Cat(<<Bol, Alt(<<Lit(<<"t","e","x","t">>), Lit(<<"b","g">>), Lit(<<"b","o","r","d","e","r">>), Lit(<<"d","e","c","o","r","a","t","i","o","n">>), Lit(<<"o","u","t","l","i","n","e">>), Lit(<<"r","i","n","g">>), Lit(<<"r","i","n","g","-","o","f","f","s","e","t">>), Lit(<<"s","h","a","d","o","w">>), Lit(<<"a","c","c","e","n","t">>), Lit(<<"c","a","r","e","t">>), Lit(<<"f","i","l","l">>), Lit(<<"s","t","r","o","k","e">>)>>), Lit(<<"-">>), Alt(<<Lit(<<"s","l","a","t","e">>), Lit(<<"g","r","a","y">>), Lit(<<"z","i","n","c">>), Lit(<<"n","e","u","t","r","a","l">>), Lit(<<"s","t","o","n","e">>), Lit(<<"r","e","d">>), Lit(<<"o","r","a","n","g","e">>), Lit(<<"a","m","b","e","r">>), Lit(<<"y","e","l","l","o","w">>), Lit(<<"l","i","m","e">>), Lit(<<"g","r","e","e","n">>), Lit(<<"e","m","e","r","a","l","d">>), Lit(<<"t","e","a","l">>), Lit(<<"c","y","a","n">>), Lit(<<"s","k","y">>), Lit(<<"b","l","u","e">>), Lit(<<"i","n","d","i","g","o">>), Lit(<<"v","i","o","l","e","t">>), Lit(<<"p","u","r","p","l","e">>), Lit(<<"f","u","c","h","s","i","a">>), Lit(<<"p","i","n","k">>), Lit(<<"r","o","s","e">>)>>), Lit(<<"-">>), Alt(<<Lit(<<"5","0">>), Lit(<<"1","0","0">>), Lit(<<"2","0","0">>), Lit(<<"3","0","0">>), Lit(<<"4","0","0">>), Lit(<<"5","0","0">>), Lit(<<"6","0","0">>), Lit(<<"7","0","0">>), Lit(<<"8","0","0">>), Lit(<<"9","0","0">>), Lit(<<"9","5","0">>)>>), Eol>>),
    Cat(<<Bol, Alt(<<Lit(<<"p">>), Lit(<<"m">>), Lit(<<"p","x">>), Lit(<<"p","y">>), Lit(<<"p","t">>), Lit(<<"p","r">>), Lit(<<"p","b">>), Lit(<<"p","l">>), Lit(<<"m","x">>), Lit(<<"m","y">>), Lit(<<"m","t">>), Lit(<<"m","r">>), Lit(<<"m","b">>), Lit(<<"m","l">>)>>), Lit(<<"-">>), Alt(<<Cat(<<Plus(In(Digit)), Opt(Lit(<<".">>)), Star(In(Digit))>>), Lit(<<"p","x">>)>>), Eol>>),
    Cat(<<Bol, Lit(<<"g","a","p">>), Opt(Alt(<<Lit(<<"-","x">>), Lit(<<"-","y">>)>>)), Lit(<<"-">>), Alt(<<Cat(<<Plus(In(Digit)), Opt(Lit(<<".">>)), Star(In(Digit))>>), Lit(<<"p","x">>)>>), Eol>>),
    Cat(<<Bol, Lit(<<"s","p","a","c","e","-">>), Alt(<<Lit(<<"x">>), Lit(<<"y">>)>>), Lit(<<"-">>), Alt(<<Cat(<<Plus(In(Digit)), Opt(Lit(<<".">>)), Star(In(Digit))>>), Lit(<<"p","x">>)>>), Eol>>),
    Cat(<<Bol, Lit(<<"r","o","u","n","d","e","d">>), Opt(Alt(<<Lit(<<"-","n","o","n","e">>), Lit(<<"-","s","m">>), Lit(<<"-","m","d">>), Lit(<<"-","l","g">>), Lit(<<"-","x","l">>), Lit(<<"-","2","x","l">>), Lit(<<"-","3","x","l">>), Lit(<<"-","f","u","l","l">>)>>)), Eol>>),
    Cat(<<Bol, Lit(<<"s","h","a","d","o","w">>), Opt(Alt(<<Lit(<<"-","n","o","n","e">>), Lit(<<"-","s","m">>), Lit(<<"-","m","d">>), Lit(<<"-","l","g">>), Lit(<<"-","x","l">>), Lit(<<"-","2","x","l">>), Lit(<<"-","3","x","l">>), Lit(<<"-","i","n","n","e","r">>)>>)), Eol>>),
    Cat(<<Bol, Lit(<<"a","n","i","m","a","t","e","-">>), Alt(<<Lit(<<"n","o","n","e">>), Lit(<<"s","p","i","n">>), Lit(<<"p","i","n","g">>), Lit(<<"p","u","l","s","e">>), Lit(<<"b","o","u","n","c","e">>)>>), Eol>>)
>>
\* the regular expression of line 638
textSizeRegex == Cat(<<Bol, Lit(<<"t","e","x","t","-">>), Alt(<<Lit(<<"x","s">>), Lit(<<"s","m">>), Lit(<<"b","a","s","e">>), Lit(<<"l","g">>), Lit(<<"x","l">>), Lit(<<"2","x","l">>), Lit(<<"3","x","l">>), Lit(<<"4","x","l">>), Lit(<<"5","x","l">>), Lit(<<"6","x","l">>), Lit(<<"7","x","l">>), Lit(<<"8","x","l">>), Lit(<<"9","x","l">>)>>), Eol>>)
\* the regular expression of line 644
fontWeightRegex == Cat(<<Bol, Lit(<<"f","o","n","t","-">>), Alt(<<Lit(<<"t","h","i","n">>), Lit(<<"e","x","t","r","a","l","i","g","h","t">>), Lit(<<"l","i","g","h","t">>), Lit(<<"n","o","r","m","a","l">>), Lit(<<"m","e","d","i","u","m">>), Lit(<<"s","e","m","i","b","o","l","d">>), Lit(<<"b","o","l","d">>), Lit(<<"e","x","t","r","a","b","o","l","d">>), Lit(<<"b","l","a","c","k">>)>>), Eol>>)
\* the regular expression of line 650
colorMatchRegex == Cat(<<Bol, Grp(1, Alt(<<Lit(<<"t","e","x","t">>), Lit(<<"b","g">>), Lit(<<"b","o","r","d","e","r">>), Lit(<<"d","e","c","o","r","a","t","i","o","n">>), Lit(<<"o","u","t","l","i","n","e">>), Lit(<<"r","i","n","g">>), Lit(<<"r","i","n","g","-","o","f","f","s","e","t">>), Lit(<<"s","h","a","d","o","w">>), Lit(<<"a","c","c","e","n","t">>), Lit(<<"c","a","r","e","t">>), Lit(<<"f","i","l","l">>), Lit(<<"s","t","r","o","k","e">>)>>)), Lit(<<"-">>), Grp(2, Alt(<<Lit(<<"s","l","a","t","e">>), Lit(<<"g","r","a","y">>), Lit(<<"z","i","n","c">>), Lit(<<"n","e","u","t","r","a","l">>), Lit(<<"s","t","o","n","e">>), Lit(<<"r","e","d">>), Lit(<<"o","r","a","n","g","e">>), Lit(<<"a","m","b","e","r">>), Lit(<<"y","e","l","l","o","w">>), Lit(<<"l","i","m","e">>), Lit(<<"g","r","e","e","n">>), Lit(<<"e","m","e","r","a","l","d">>), Lit(<<"t","e","a","l">>), Lit(<<"c","y","a","n">>), Lit(<<"s","k","y">>), Lit(<<"b","l","u","e">>), Lit(<<"i","n","d","i","g","o">>), Lit(<<"v","i","o","l","e","t">>), Lit(<<"p","u","r","p","l","e">>), Lit(<<"f","u","c","h","s","i","a">>), Lit(<<"p","i","n","k">>), Lit(<<"r","o","s","e">>)>>)), Lit(<<"-">>), Grp(3, Alt(<<Lit(<<"5","0">>), Lit(<<"1","0","0">>), Lit(<<"2","0","0">>), Lit(<<"3","0","0">>), Lit(<<"4","0","0">>), Lit(<<"5","0","0">>), Lit(<<"6","0","0">>), Lit(<<"7","0","0">>), Lit(<<"8","0","0">>), Lit(<<"9","0","0">>), Lit(<<"9","5","0">>)>>)), Eol>>)
\* the regular expression of line 657
spacingMatchRegex == Cat(<<Bol, Grp(1, Alt(<<Lit(<<"p">>), Lit(<<"m">>), Lit(<<"p","x">>), Lit(<<"p","y">>), Lit(<<"p","t">>), Lit(<<"p","r">>), Lit(<<"p","b">>), Lit(<<"p","l">>), Lit(<<"m","x">>), Lit(<<"m","y">>), Lit(<<"m","t">>), Lit(<<"m","r">>), Lit(<<"m","b">>), Lit(<<"m","l">>)>>)), Lit(<<"-">>), Grp(2, Alt(<<Cat(<<Plus(In(Digit)), Opt(Lit(<<".">>)), Star(In(Digit))>>), Lit(<<"p","x">>)>>)), Eol>>)
\* the regular expression of line 664
radiusMatchRegex == Cat(<<Bol, Lit(<<"r","o","u","n","d","e","d">>), Opt(Grp(1, Alt(<<Lit(<<"-","n","o","n","e">>), Lit(<<"-","s","m">>), Lit(<<"-","m","d">>), Lit(<<"-","l","g">>), Lit(<<"-","x","l">>), Lit(<<"-","2","x","l">>), Lit(<<"-","3","x","l">>), Lit(<<"-","f","u","l","l">>)>>))), Eol>>)
\* the regular expression of line 671
shadowMatchRegex == Cat(<<Bol, Lit(<<"s","h","a","d","o","w">>), Opt(Grp(1, Alt(<<Lit(<<"-","n","o","n","e">>), Lit(<<"-","s","m">>), Lit(<<"-","m","d">>), Lit(<<"-","l","g">>), Lit(<<"-","2","x","l">>), Lit(<<"-","3","x","l">>), Lit(<<"-","i","n","n","e","r">>)>>))), Eol>>)
\* the regular expression of line 930
bracketRegex == Cat(<<Lit(<<"[">>), Plus(NotIn(LineTerminator)), Lit(<<"]">>)>>)
\* the regular expression of line 931
selectorVariantRegex == Cat(<<Bol, Lit(<<"[","&">>), StarLazy(NotIn(LineTerminator)), Lit(<<"]",":">>)>>)
\* the regular expression of line 932
dataVariantRegex == Cat(<<Bol, Lit(<<"d","a","t","a","-","[">>), StarLazy(NotIn(LineTerminator)), Lit(<<"]",":">>)>>)
\* the regular expression of line 933
ariaVariantRegex == Cat(<<Bol, Lit(<<"a","r","i","a","-","[">>), StarLazy(NotIn(LineTerminator)), Lit(<<"]",":">>)>>)
\* the regular expression of line 934
supportsVariantRegex == Cat(<<Bol, Lit(<<"s","u","p","p","o","r","t","s","-","[">>), StarLazy(NotIn(LineTerminator)), Lit(<<"]",":">>)>>)
\* the regular expression of line 1010
whitespaceRegex == Plus(In(WhiteSpace))

\* isTailwindUtility: the Structural Classifier (lines 693-916), in the order of the source
tailwindPatterns == <<
    Cat(<<Bol, Lit(<<"@","c","o","n","t","a","i","n","e","r">>), Eol>>),
    Cat(<<Bol, Lit(<<"@">>), Alt(<<Lit(<<"x","s">>), Lit(<<"s","m">>), Lit(<<"m","d">>), Lit(<<"l","g">>), Lit(<<"x","l">>), Lit(<<"2","x","l">>), Lit(<<"3","x","l">>), Lit(<<"4","x","l">>), Lit(<<"5","x","l">>), Lit(<<"6","x","l">>), Lit(<<"7","x","l">>)>>), Lit(<<"/">>), Plus(NotIn(LineTerminator)), Eol>>),
    Cat(<<Bol, Lit(<<"@","c","o","n","t","a","i","n","e","r","-">>), Plus(NotIn(LineTerminator)), Lit(<<"/">>), Plus(NotIn(LineTerminator)), Eol>>),
    Cat(<<Bol, Alt(<<Lit(<<"c","o","n","t","a","i","n","e","r">>), Lit(<<"b","l","o","c","k">>), Lit(<<"i","n","l","i","n","e","-","b","l","o","c","k">>), Lit(<<"i","n","l","i","n","e">>), Lit(<<"f","l","e","x">>), Lit(<<"i","n","l","i","n","e","-","f","l","e","x">>), Lit(<<"t","a","b","l","e">>), Lit(<<"i","n","l","i","n","e","-","t","a","b","l","e">>), Lit(<<"t","a","b","l","e","-","c","a","p","t","i","o","n">>), Lit(<<"t","a","b","l","e","-","c","e","l","l">>), Lit(<<"t","a","b","l","e","-","c","o","l","u","m","n">>), Lit(<<"t","a","b","l","e","-","c","o","l","u","m","n","-","g","r","o","u","p">>), Lit(<<"t","a","b","l","e","-","f","o","o","t","e","r","-","g","r","o","u","p">>), Lit(<<"t","a","b","l","e","-","h","e","a","d","e","r","-","g","r","o","u","p">>), Lit(<<"t","a","b","l","e","-","r","o","w","-","g","r","o","u","p">>), Lit(<<"t","a","b","l","e","-","r","o","w">>), Lit(<<"f","l","o","w","-","r","o","o","t">>), Lit(<<"g","r","i","d">>), Lit(<<"i","n","l","i","n","e","-","g","r","i","d">>), Lit(<<"c","o","n","t","e","n","t","s">>), Lit(<<"l","i","s","t","-","i","t","e","m">>), Lit(<<"h","i","d","d","e","n">>)>>), Eol>>),
    Cat(<<Bol, Lit(<<"a","s","p","e","c","t","-">>), Alt(<<Lit(<<"s","q","u","a","r","e">>), Lit(<<"v","i","d","e","o">>), Lit(<<"a","u","t","o">>), Cat(<<Plus(In(Digit)), Lit(<<"/">>), Plus(In(Digit))>>)>>), Eol>>),
    Cat(<<Bol, Alt(<<Lit(<<"g","r","o","u","p">>), Lit(<<"p","e","e","r">>)>>), Eol>>),
    Cat(<<Bol, Lit(<<"g","r","o","u","p","/">>), Plus(In(WordChar \cup {"-"})), Eol>>),
    Cat(<<Bol, Lit(<<"p","e","e","r","/">>), Plus(In(WordChar \cup {"-"})), Eol>>),
    Cat(<<Bol, Lit(<<"f","l","e","x","-">>), Alt(<<Lit(<<"r","o","w">>), Lit(<<"c","o","l">>), Lit(<<"w","r","a","p">>), Lit(<<"n","o","w","r","a","p">>), Lit(<<"1">>), Lit(<<"a","u","t","o">>), Lit(<<"i","n","i","t","i","a","l">>), Lit(<<"n","o","n","e">>)>>), Opt(Lit(<<"-","r","e","v","e","r","s","e">>)), Eol>>),
    Cat(<<Bol, Lit(<<"f","l","e","x","-">>), Alt(<<Cat(<<Plus(In(Digit)), Lit(<<"/">>), Plus(In(Digit))>>), Plus(In(Digit))>>), Eol>>),
    Cat(<<Bol, Alt(<<Lit(<<"g","r","o","w">>), Lit(<<"g","r","o","w","-","0">>), Lit(<<"s","h","r","i","n","k">>), Lit(<<"s","h","r","i","n","k","-","0">>)>>), Eol>>),
    Cat(<<Bol, Lit(<<"f","l","e","x","-">>), Alt(<<Lit(<<"g","r","o","w">>), Lit(<<"s","h","r","i","n","k">>)>>), Opt(Lit(<<"-","0">>)), Eol>>),
    Cat(<<Bol, Alt(<<Lit(<<"i","t","e","m","s">>), Lit(<<"j","u","s","t","i","f","y">>), Lit(<<"c","o","n","t","e","n","t">>), Lit(<<"s","e","l","f">>)>>), Lit(<<"-">>), Alt(<<Lit(<<"s","t","a","r","t">>), Lit(<<"e","n","d">>), Lit(<<"c","e","n","t","e","r">>), Lit(<<"s","t","r","e","t","c","h">>), Lit(<<"b","e","t","w","e","e","n">>), Lit(<<"a","r","o","u","n","d">>), Lit(<<"e","v","e","n","l","y">>), Lit(<<"b","a","s","e","l","i","n","e">>), Lit(<<"a","u","t","o">>)>>), Eol>>),
    Cat(<<Bol, Alt(<<Lit(<<"p","l","a","c","e","-","c","o","n","t","e","n","t">>), Lit(<<"p","l","a","c","e","-","i","t","e","m","s">>), Lit(<<"p","l","a","c","e","-","s","e","l","f">>)>>), Lit(<<"-">>), Alt(<<Lit(<<"s","t","a","r","t">>), Lit(<<"e","n","d">>), Lit(<<"c","e","n","t","e","r">>), Lit(<<"s","t","r","e","t","c","h">>), Lit(<<"b","e","t","w","e","e","n">>), Lit(<<"a","r","o","u","n","d">>), Lit(<<"e","v","e","n","l","y">>), Lit(<<"b","a","s","e","l","i","n","e">>), Lit(<<"a","u","t","o">>)>>), Eol>>),
    Cat(<<Bol, Alt(<<Lit(<<"m">>), Lit(<<"p">>)>>), Alt(<<Lit(<<"s">>), Lit(<<"e">>), Lit(<<"i","s">>), Lit(<<"i","e">>), Lit(<<"b","s">>), Lit(<<"b","e">>)>>), Lit(<<"-">>), Alt(<<Cat(<<Plus(In(Digit)), Opt(Lit(<<".">>)), Star(In(Digit))>>), Lit(<<"p","x">>), Lit(<<"a","u","t","o">>)>>), Eol>>),
    Cat(<<Bol, Lit(<<"b","o","r","d","e","r","-">>), Alt(<<Lit(<<"s">>), Lit(<<"e">>), Lit(<<"i","s">>), Lit(<<"i","e">>), Lit(<<"b","s">>), Lit(<<"b","e">>)>>), Opt(Cat(<<Lit(<<"-">>), Plus(In(Digit))>>)), Eol>>),
    Cat(<<Bol, Lit(<<"r","o","u","n","d","e","d","-">>), Alt(<<Lit(<<"s">>), Lit(<<"e">>), Lit(<<"s","s">>), Lit(<<"s","e">>), Lit(<<"e","e">>), Lit(<<"e","s">>)>>), Opt(Alt(<<Lit(<<"-","n","o","n","e">>), Lit(<<"-","s","m">>), Lit(<<"-","m","d">>), Lit(<<"-","l","g">>), Lit(<<"-","x","l">>), Lit(<<"-","2","x","l">>), Lit(<<"-","3","x","l">>), Lit(<<"-","f","u","l","l">>)>>)), Eol>>),
    Cat(<<Bol, Alt(<<Lit(<<"p">>), Lit(<<"m">>), Lit(<<"p","x">>), Lit(<<"p","y">>), Lit(<<"p","t">>), Lit(<<"p","r">>), Lit(<<"p","b">>), Lit(<<"p","l">>), Lit(<<"m","x">>), Lit(<<"m","y">>), Lit(<<"m","t">>), Lit(<<"m","r">>), Lit(<<"m","b">>), Lit(<<"m","l">>)>>), Lit(<<"-">>), Alt(<<Cat(<<Plus(In(Digit)), Opt(Lit(<<".">>)), Star(In(Digit))>>), Lit(<<"p","x">>), Lit(<<"a","u","t","o">>)>>), Eol>>),
    Cat(<<Bol, Lit(<<"g","a","p">>), Opt(Alt(<<Lit(<<"-","x">>), Lit(<<"-","y">>)>>)), Lit(<<"-">>), Alt(<<Cat(<<Plus(In(Digit)), Opt(Lit(<<".">>)), Star(In(Digit))>>), Lit(<<"p","x">>)>>), Eol>>),
    Cat(<<Bol, Lit(<<"s","p","a","c","e","-">>), Alt(<<Lit(<<"x">>), Lit(<<"y">>)>>), Lit(<<"-">>), Alt(<<Cat(<<Plus(In(Digit)), Opt(Lit(<<".">>)), Star(In(Digit))>>), Lit(<<"p","x">>), Lit(<<"r","e","v","e","r","s","e">>)>>), Eol>>),
    Cat(<<Bol, Alt(<<Lit(<<"w">>), Lit(<<"h">>)>>), Lit(<<"-">>), Alt(<<Lit(<<"d","v","h">>), Lit(<<"l","v","h">>), Lit(<<"s","v","h">>), Lit(<<"d","v","w">>), Lit(<<"l","v","w">>), Lit(<<"s","v","w">>)>>), Eol>>),
    Cat(<<Bol, Alt(<<Lit(<<"m","i","n","-","w">>), Lit(<<"m","i","n","-","h">>), Lit(<<"m","a","x","-","w">>), Lit(<<"m","a","x","-","h">>)>>), Lit(<<"-">>), Alt(<<Lit(<<"0">>), Lit(<<"n","o","n","e">>), Lit(<<"f","u","l","l">>), Lit(<<"m","i","n">>), Lit(<<"m","a","x">>), Lit(<<"f","i","t">>), Lit(<<"p","r","o","s","e">>), Cat(<<Lit(<<"s","c","r","e","e","n","-">>), Alt(<<Lit(<<"s","m">>), Lit(<<"m","d">>), Lit(<<"l","g">>), Lit(<<"x","l">>), Lit(<<"2","x","l">>)>>)>>)>>), Eol>>),
    Cat(<<Bol, Alt(<<Lit(<<"m","i","n","-","w">>), Lit(<<"m","i","n","-","h">>), Lit(<<"m","a","x","-","w">>), Lit(<<"m","a","x","-","h">>)>>), Lit(<<"-">>), Cat(<<Plus(In(Digit)), Lit(<<"/">>), Plus(In(Digit))>>), Eol>>),
    Cat(<<Bol, Lit(<<"s","i","z","e","-">>), Alt(<<Cat(<<Plus(In(Digit)), Opt(Lit(<<".">>)), Star(In(Digit))>>), Lit(<<"p","x">>), Lit(<<"a","u","t","o">>), Lit(<<"f","u","l","l">>), Lit(<<"s","c","r","e","e","n">>), Lit(<<"m","i","n">>), Lit(<<"m","a","x">>), Lit(<<"f","i","t">>)>>), Eol>>),
    Cat(<<Bol, Alt(<<Lit(<<"w">>), Lit(<<"h">>), Lit(<<"m","i","n","-","w">>), Lit(<<"m","i","n","-","h">>), Lit(<<"m","a","x","-","w">>), Lit(<<"m","a","x","-","h">>)>>), Lit(<<"-">>), Alt(<<Lit(<<"0">>), Lit(<<"p","x">>), Cat(<<Plus(In(Digit)), Opt(Lit(<<".">>)), Star(In(Digit))>>), Lit(<<"a","u","t","o">>), Lit(<<"f","u","l","l">>), Lit(<<"s","c","r","e","e","n">>), Lit(<<"m","i","n">>), Lit(<<"m","a","x">>), Lit(<<"f","i","t">>)>>), Eol>>),
    Cat(<<Bol, Alt(<<Lit(<<"w">>), Lit(<<"h">>)>>), Lit(<<"-">>), Cat(<<Plus(In(Digit)), Lit(<<"/">>), Plus(In(Digit))>>), Eol>>),
    Cat(<<Bol, Lit(<<"t","e","x","t","-">>), Alt(<<Lit(<<"x","s">>), Lit(<<"s","m">>), Lit(<<"b","a","s","e">>), Lit(<<"l","g">>), Lit(<<"x","l">>), Lit(<<"2","x","l">>), Lit(<<"3","x","l">>), Lit(<<"4","x","l">>), Lit(<<"5","x","l">>), Lit(<<"6","x","l">>), Lit(<<"7","x","l">>), Lit(<<"8","x","l">>), Lit(<<"9","x","l">>)>>), Eol>>),
    Cat(<<Bol, Lit(<<"f","o","n","t","-">>), Alt(<<Lit(<<"t","h","i","n">>), Lit(<<"e","x","t","r","a","l","i","g","h","t">>), Lit(<<"l","i","g","h","t">>), Lit(<<"n","o","r","m","a","l">>), Lit(<<"m","e","d","i","u","m">>), Lit(<<"s","e","m","i","b","o","l","d">>), Lit(<<"b","o","l","d">>), Lit(<<"e","x","t","r","a","b","o","l","d">>), Lit(<<"b","l","a","c","k">>)>>), Eol>>),
    Cat(<<Bol, Lit(<<"f","o","n","t","-">>), Alt(<<Lit(<<"s","a","n","s">>), Lit(<<"s","e","r","i","f">>), Lit(<<"m","o","n","o">>)>>), Eol>>),
    Cat(<<Bol, Lit(<<"t","e","x","t","-">>), Alt(<<Lit(<<"l","e","f","t">>), Lit(<<"c","e","n","t","e","r">>), Lit(<<"r","i","g","h","t">>), Lit(<<"j","u","s","t","i","f","y">>), Lit(<<"s","t","a","r","t">>), Lit(<<"e","n","d">>)>>), Eol>>),
    Cat(<<Bol, Alt(<<Lit(<<"u","p","p","e","r","c","a","s","e">>), Lit(<<"l","o","w","e","r","c","a","s","e">>), Lit(<<"c","a","p","i","t","a","l","i","z","e">>), Lit(<<"n","o","r","m","a","l","-","c","a","s","e">>)>>), Eol>>),
    Cat(<<Bol, Alt(<<Lit(<<"i","t","a","l","i","c">>), Lit(<<"n","o","t","-","i","t","a","l","i","c">>)>>), Eol>>),
    Cat(<<Bol, Alt(<<Lit(<<"u","n","d","e","r","l","i","n","e">>), Lit(<<"o","v","e","r","l","i","n","e">>), Lit(<<"l","i","n","e","-","t","h","r","o","u","g","h">>), Lit(<<"n","o","-","u","n","d","e","r","l","i","n","e">>)>>), Eol>>),
    Cat(<<Bol, Lit(<<"d","e","c","o","r","a","t","i","o","n","-">>), Alt(<<Lit(<<"s","l","i","c","e">>), Lit(<<"c","l","o","n","e">>), Lit(<<"a","u","t","o">>), Lit(<<"f","r","o","m","-","f","o","n","t">>), Plus(In(Digit)), Lit(<<"d","o","u","b","l","e">>), Lit(<<"d","o","t","t","e","d">>), Lit(<<"d","a","s","h","e","d">>), Lit(<<"w","a","v","y">>), Lit(<<"s","o","l","i","d">>)>>), Eol>>),
    Cat(<<Bol, Lit(<<"u","n","d","e","r","l","i","n","e","-","o","f","f","s","e","t","-">>), Alt(<<Lit(<<"a","u","t","o">>), Plus(In(Digit))>>), Eol>>),
    Cat(<<Bol, Lit(<<"l","e","a","d","i","n","g","-">>), Alt(<<Lit(<<"n","o","n","e">>), Lit(<<"t","i","g","h","t">>), Lit(<<"s","n","u","g">>), Lit(<<"n","o","r","m","a","l">>), Lit(<<"r","e","l","a","x","e","d">>), Lit(<<"l","o","o","s","e">>), Cat(<<Plus(In(Digit)), Opt(Lit(<<".">>)), Star(In(Digit))>>)>>), Eol>>),
    Cat(<<Bol, Lit(<<"t","r","a","c","k","i","n","g","-">>), Alt(<<Lit(<<"t","i","g","h","t","e","r">>), Lit(<<"t","i","g","h","t">>), Lit(<<"n","o","r","m","a","l">>), Lit(<<"w","i","d","e">>), Lit(<<"w","i","d","e","r">>), Lit(<<"w","i","d","e","s","t">>)>>), Eol>>),
    Cat(<<Bol, Lit(<<"i","n","d","e","n","t","-">>), Alt(<<Cat(<<Plus(In(Digit)), Opt(Lit(<<".">>)), Star(In(Digit))>>), Lit(<<"p","x">>)>>), Eol>>),
    Cat(<<Bol, Alt(<<Lit(<<"a","l","i","g","n","-","b","a","s","e","l","i","n","e">>), Lit(<<"a","l","i","g","n","-","t","o","p">>), Lit(<<"a","l","i","g","n","-","m","i","d","d","l","e">>), Lit(<<"a","l","i","g","n","-","b","o","t","t","o","m">>), Lit(<<"a","l","i","g","n","-","t","e","x","t","-","t","o","p">>), Lit(<<"a","l","i","g","n","-","t","e","x","t","-","b","o","t","t","o","m">>), Lit(<<"a","l","i","g","n","-","s","u","p","e","r">>), Lit(<<"a","l","i","g","n","-","s","u","b">>)>>), Eol>>),
    Cat(<<Bol, Lit(<<"t","e","x","t","-">>), Alt(<<Lit(<<"w","r","a","p">>), Lit(<<"n","o","w","r","a","p">>), Lit(<<"b","a","l","a","n","c","e">>), Lit(<<"p","r","e","t","t","y">>), Lit(<<"e","l","l","i","p","s","i","s">>), Lit(<<"c","l","i","p">>)>>), Eol>>),
    Cat(<<Bol, Lit(<<"w","h","i","t","e","s","p","a","c","e","-">>), Alt(<<Lit(<<"n","o","r","m","a","l">>), Lit(<<"n","o","w","r","a","p">>), Lit(<<"p","r","e">>), Lit(<<"p","r","e","-","l","i","n","e">>), Lit(<<"p","r","e","-","w","r","a","p">>), Lit(<<"b","r","e","a","k","-","s","p","a","c","e","s">>)>>), Eol>>),
    Cat(<<Bol, Alt(<<Lit(<<"b","r","e","a","k","-","n","o","r","m","a","l">>), Lit(<<"b","r","e","a","k","-","w","o","r","d","s">>), Lit(<<"b","r","e","a","k","-","a","l","l">>), Lit(<<"b","r","e","a","k","-","k","e","e","p">>)>>), Eol>>),
    Cat(<<Bol, Lit(<<"h","y","p","h","e","n","s","-">>), Alt(<<Lit(<<"n","o","n","e">>), Lit(<<"m","a","n","u","a","l">>), Lit(<<"a","u","t","o">>)>>), Eol>>),
    Cat(<<Bol, Lit(<<"t","e","x","t","-","o","v","e","r","f","l","o","w","-">>), Alt(<<Lit(<<"e","l","l","i","p","s","i","s">>), Lit(<<"c","l","i","p">>)>>), Eol>>),
    Cat(<<Bol, Lit(<<"l","i","n","e","-","c","l","a","m","p","-">>), Alt(<<Plus(In(Digit)), Lit(<<"n","o","n","e">>)>>), Eol>>),
    Cat(<<Bol, Alt(<<Lit(<<"t","e","x","t">>), Lit(<<"b","g">>), Lit(<<"b","o","r","d","e","r">>), Lit(<<"d","e","c","o","r","a","t","i","o","n">>), Lit(<<"o","u","t","l","i","n","e">>), Lit(<<"r","i","n","g">>), Lit(<<"r","i","n","g","-","o","f","f","s","e","t">>), Lit(<<"s","h","a","d","o","w">>), Lit(<<"a","c","c","e","n","t">>), Lit(<<"c","a","r","e","t">>), Lit(<<"f","i","l","l">>), Lit(<<"s","t","r","o","k","e">>)>>), Lit(<<"-">>), Alt(<<Lit(<<"i","n","h","e","r","i","t">>), Lit(<<"c","u","r","r","e","n","t">>), Lit(<<"t","r","a","n","s","p","a","r","e","n","t">>), Lit(<<"b","l","a","c","k">>), Lit(<<"w","h","i","t","e">>)>>), Eol>>),
    Cat(<<Bol, Alt(<<Lit(<<"t","e","x","t">>), Lit(<<"b","g">>), Lit(<<"b","o","r","d","e","r">>), Lit(<<"d","e","c","o","r","a","t","i","o","n">>), Lit(<<"o","u","t","l","i","n","e">>), Lit(<<"r","i","n","g">>), Lit(<<"r","i","n","g","-","o","f","f","s","e","t">>), Lit(<<"s","h","a","d","o","w">>), Lit(<<"a","c","c","e","n","t">>), Lit(<<"c","a","r","e","t">>), Lit(<<"f","i","l","l">>), Lit(<<"s","t","r","o","k","e">>)>>), Lit(<<"-">>), Alt(<<Lit(<<"s","l","a","t","e">>), Lit(<<"g","r","a","y">>), Lit(<<"z","i","n","c">>), Lit(<<"n","e","u","t","r","a","l">>), Lit(<<"s","t","o","n","e">>), Lit(<<"r","e","d">>), Lit(<<"o","r","a","n","g","e">>), Lit(<<"a","m","b","e","r">>), Lit(<<"y","e","l","l","o","w">>), Lit(<<"l","i","m","e">>), Lit(<<"g","r","e","e","n">>), Lit(<<"e","m","e","r","a","l","d">>), Lit(<<"t","e","a","l">>), Lit(<<"c","y","a","n">>), Lit(<<"s","k","y">>), Lit(<<"b","l","u","e">>), Lit(<<"i","n","d","i","g","o">>), Lit(<<"v","i","o","l","e","t">>), Lit(<<"p","u","r","p","l","e">>), Lit(<<"f","u","c","h","s","i","a">>), Lit(<<"p","i","n","k">>), Lit(<<"r","o","s","e">>)>>), Lit(<<"-">>), Alt(<<Lit(<<"5","0">>), Lit(<<"1","0","0">>), Lit(<<"2","0","0">>), Lit(<<"3","0","0">>), Lit(<<"4","0","0">>), Lit(<<"5","0","0">>), Lit(<<"6","0","0">>), Lit(<<"7","0","0">>), Lit(<<"8","0","0">>), Lit(<<"9","0","0">>), Lit(<<"9","5","0">>)>>), Eol>>),
    Cat(<<Bol, Lit(<<"b","o","r","d","e","r","-">>), Alt(<<Lit(<<"t">>), Lit(<<"r">>), Lit(<<"b">>), Lit(<<"l">>), Lit(<<"x">>), Lit(<<"y">>), Lit(<<"s">>), Lit(<<"e">>), Lit(<<"i","s">>), Lit(<<"i","e">>), Lit(<<"b","s">>), Lit(<<"b","e">>)>>), Lit(<<"-">>), Alt(<<Lit(<<"i","n","h","e","r","i","t">>), Lit(<<"c","u","r","r","e","n","t">>), Lit(<<"t","r","a","n","s","p","a","r","e","n","t">>), Lit(<<"b","l","a","c","k">>), Lit(<<"w","h","i","t","e">>)>>), Eol>>),
    Cat(<<Bol, Lit(<<"b","o","r","d","e","r","-">>), Alt(<<Lit(<<"t">>), Lit(<<"r">>), Lit(<<"b">>), Lit(<<"l">>), Lit(<<"x">>), Lit(<<"y">>), Lit(<<"s">>), Lit(<<"e">>), Lit(<<"i","s">>), Lit(<<"i","e">>), Lit(<<"b","s">>), Lit(<<"b","e">>)>>), Lit(<<"-">>), Alt(<<Lit(<<"s","l","a","t","e">>), Lit(<<"g","r","a","y">>), Lit(<<"z","i","n","c">>), Lit(<<"n","e","u","t","r","a","l">>), Lit(<<"s","t","o","n","e">>), Lit(<<"r","e","d">>), Lit(<<"o","r","a","n","g","e">>), Lit(<<"a","m","b","e","r">>), Lit(<<"y","e","l","l","o","w">>), Lit(<<"l","i","m","e">>), Lit(<<"g","r","e","e","n">>), Lit(<<"e","m","e","r","a","l","d">>), Lit(<<"t","e","a","l">>), Lit(<<"c","y","a","n">>), Lit(<<"s","k","y">>), Lit(<<"b","l","u","e">>), Lit(<<"i","n","d","i","g","o">>), Lit(<<"v","i","o","l","e","t">>), Lit(<<"p","u","r","p","l","e">>), Lit(<<"f","u","c","h","s","i","a">>), Lit(<<"p","i","n","k">>), Lit(<<"r","o","s","e">>)>>), Lit(<<"-">>), Alt(<<Lit(<<"5","0">>), Lit(<<"1","0","0">>), Lit(<<"2","0","0">>), Lit(<<"3","0","0">>), Lit(<<"4","0","0">>), Lit(<<"5","0","0">>), Lit(<<"6","0","0">>), Lit(<<"7","0","0">>), Lit(<<"8","0","0">>), Lit(<<"9","0","0">>), Lit(<<"9","5","0">>)>>), Eol>>),
    Cat(<<Bol, Lit(<<"b","o","r","d","e","r","-">>), Alt(<<Lit(<<"t">>), Lit(<<"r">>), Lit(<<"b">>), Lit(<<"l">>), Lit(<<"x">>), Lit(<<"y">>), Lit(<<"s">>), Lit(<<"e">>), Lit(<<"i","s">>), Lit(<<"i","e">>), Lit(<<"b","s">>), Lit(<<"b","e">>)>>), Lit(<<"-">>), Plus(In(WordChar \cup {"-"})), Eol>>),
    Cat(<<Bol, Lit(<<"d","i","v","i","d","e","-">>), Plus(In(WordChar \cup {"-"})), Eol>>),
    Cat(<<Bol, Alt(<<Lit(<<"t","e","x","t">>), Lit(<<"b","g">>), Lit(<<"b","o","r","d","e","r">>), Lit(<<"d","e","c","o","r","a","t","i","o","n">>), Lit(<<"o","u","t","l","i","n","e">>), Lit(<<"r","i","n","g">>), Lit(<<"r","i","n","g","-","o","f","f","s","e","t">>), Lit(<<"s","h","a","d","o","w">>), Lit(<<"a","c","c","e","n","t">>), Lit(<<"c","a","r","e","t">>), Lit(<<"f","i","l","l">>), Lit(<<"s","t","r","o","k","e">>)>>), Lit(<<"-">>), Plus(In(WordChar)), Opt(Cat(<<Lit(<<"-">>), Plus(In(Digit))>>)), Lit(<<"/">>), Plus(In(Digit)), Eol>>),
    Cat(<<Bol, Alt(<<Lit(<<"t","e","x","t">>), Lit(<<"b","g">>), Lit(<<"b","o","r","d","e","r">>), Lit(<<"d","e","c","o","r","a","t","i","o","n">>), Lit(<<"o","u","t","l","i","n","e">>), Lit(<<"r","i","n","g">>), Lit(<<"r","i","n","g","-","o","f","f","s","e","t">>), Lit(<<"s","h","a","d","o","w">>), Lit(<<"a","c","c","e","n","t">>), Lit(<<"c","a","r","e","t">>), Lit(<<"f","i","l","l">>), Lit(<<"s","t","r","o","k","e">>)>>), Lit(<<"-">>), Alt(<<Lit(<<"c","u","r","r","e","n","t">>), Lit(<<"t","r","a","n","s","p","a","r","e","n","t">>), Lit(<<"i","n","h","e","r","i","t">>), Lit(<<"b","l","a","c","k">>), Lit(<<"w","h","i","t","e">>)>>), Lit(<<"/">>), Plus(In(Digit)), Eol>>),
    Cat(<<Bol, Alt(<<Lit(<<"t","e","x","t">>), Lit(<<"b","g">>), Lit(<<"b","o","r","d","e","r">>), Lit(<<"d","e","c","o","r","a","t","i","o","n">>), Lit(<<"o","u","t","l","i","n","e">>), Lit(<<"r","i","n","g">>), Lit(<<"r","i","n","g","-","o","f","f","s","e","t">>), Lit(<<"s","h","a","d","o","w">>), Lit(<<"a","c","c","e","n","t">>), Lit(<<"c","a","r","e","t">>), Lit(<<"f","i","l","l">>), Lit(<<"s","t","r","o","k","e">>)>>), Lit(<<"-">>), Plus(In(WordChar)), Lit(<<"-">>), Plus(In(Digit)), Lit(<<"/">>), Plus(In(Digit)), Eol>>),
    Cat(<<Bol, Lit(<<"b","g","-">>), Alt(<<Lit(<<"f","i","x","e","d">>), Lit(<<"l","o","c","a","l">>), Lit(<<"s","c","r","o","l","l">>)>>), Eol>>),
    Cat(<<Bol, Lit(<<"b","g","-">>), Alt(<<Lit(<<"a","u","t","o">>), Lit(<<"c","o","v","e","r">>), Lit(<<"c","o","n","t","a","i","n">>)>>), Eol>>),
    Cat(<<Bol, Lit(<<"b","g","-">>), Alt(<<Lit(<<"c","e","n","t","e","r">>), Lit(<<"t","o","p">>), Lit(<<"r","i","g","h","t">>), Lit(<<"b","o","t","t","o","m">>), Lit(<<"l","e","f","t">>), Lit(<<"r","i","g","h","t","-","t","o","p">>), Lit(<<"r","i","g","h","t","-","b","o","t","t","o","m">>), Lit(<<"l","e","f","t","-","t","o","p">>), Lit(<<"l","e","f","t","-","b","o","t","t","o","m">>)>>), Eol>>),
    Cat(<<Bol, Lit(<<"b","g","-">>), Alt(<<Lit(<<"r","e","p","e","a","t">>), Lit(<<"n","o","-","r","e","p","e","a","t">>), Lit(<<"r","e","p","e","a","t","-","x">>), Lit(<<"r","e","p","e","a","t","-","y">>), Lit(<<"r","e","p","e","a","t","-","r","o","u","n","d">>), Lit(<<"r","e","p","e","a","t","-","s","p","a","c","e">>)>>), Eol>>),
    Cat(<<Bol, Lit(<<"b","g","-","o","r","i","g","i","n","-">>), Alt(<<Lit(<<"b","o","r","d","e","r">>), Lit(<<"p","a","d","d","i","n","g">>), Lit(<<"c","o","n","t","e","n","t">>)>>), Eol>>),
    Cat(<<Bol, Lit(<<"b","g","-","c","l","i","p","-">>), Alt(<<Lit(<<"b","o","r","d","e","r">>), Lit(<<"p","a","d","d","i","n","g">>), Lit(<<"c","o","n","t","e","n","t">>), Lit(<<"t","e","x","t">>)>>), Eol>>),
    Cat(<<Bol, Lit(<<"b","g","-","g","r","a","d","i","e","n","t","-","t","o","-">>), Alt(<<Lit(<<"t">>), Lit(<<"t","r">>), Lit(<<"r">>), Lit(<<"b","r">>), Lit(<<"b">>), Lit(<<"b","l">>), Lit(<<"l">>), Lit(<<"t","l">>)>>), Eol>>),
    Cat(<<Bol, Lit(<<"b","g","-","g","r","a","d","i","e","n","t","-">>), Alt(<<Lit(<<"c","o","n","i","c">>), Lit(<<"r","a","d","i","a","l">>), Lit(<<"l","i","n","e","a","r">>)>>), Eol>>),
    Cat(<<Bol, Lit(<<"b","g","-","l","i","n","e","a","r","-","t","o","-">>), Alt(<<Lit(<<"t">>), Lit(<<"t","r">>), Lit(<<"r">>), Lit(<<"b","r">>), Lit(<<"b">>), Lit(<<"b","l">>), Lit(<<"l">>), Lit(<<"t","l">>)>>), Eol>>),
    Cat(<<Bol, Lit(<<"b","g","-">>), Alt(<<Lit(<<"l","i","n","e","a","r">>), Lit(<<"r","a","d","i","a","l">>), Lit(<<"c","o","n","i","c">>)>>), Lit(<<"-","g","r","a","d","i","e","n","t">>), Eol>>),
    Cat(<<Bol, Alt(<<Lit(<<"f","r","o","m">>), Lit(<<"v","i","a">>), Lit(<<"t","o">>)>>), Lit(<<"-">>), Alt(<<Lit(<<"i","n","h","e","r","i","t">>), Lit(<<"c","u","r","r","e","n","t">>), Lit(<<"t","r","a","n","s","p","a","r","e","n","t">>), Lit(<<"b","l","a","c","k">>), Lit(<<"w","h","i","t","e">>)>>), Eol>>),
    Cat(<<Bol, Alt(<<Lit(<<"f","r","o","m">>), Lit(<<"v","i","a">>), Lit(<<"t","o">>)>>), Lit(<<"-">>), Alt(<<Lit(<<"s","l","a","t","e">>), Lit(<<"g","r","a","y">>), Lit(<<"z","i","n","c">>), Lit(<<"n","e","u","t","r","a","l">>), Lit(<<"s","t","o","n","e">>), Lit(<<"r","e","d">>), Lit(<<"o","r","a","n","g","e">>), Lit(<<"a","m","b","e","r">>), Lit(<<"y","e","l","l","o","w">>), Lit(<<"l","i","m","e">>), Lit(<<"g","r","e","e","n">>), Lit(<<"e","m","e","r","a","l","d">>), Lit(<<"t","e","a","l">>), Lit(<<"c","y","a","n">>), Lit(<<"s","k","y">>), Lit(<<"b","l","u","e">>), Lit(<<"i","n","d","i","g","o">>), Lit(<<"v","i","o","l","e","t">>), Lit(<<"p","u","r","p","l","e">>), Lit(<<"f","u","c","h","s","i","a">>), Lit(<<"p","i","n","k">>), Lit(<<"r","o","s","e">>)>>), Lit(<<"-">>), Alt(<<Lit(<<"5","0">>), Lit(<<"1","0","0">>), Lit(<<"2","0","0">>), Lit(<<"3","0","0">>), Lit(<<"4","0","0">>), Lit(<<"5","0","0">>), Lit(<<"6","0","0">>), Lit(<<"7","0","0">>), Lit(<<"8","0","0">>), Lit(<<"9","0","0">>), Lit(<<"9","5","0">>)>>), Eol>>),
    Cat(<<Bol, Alt(<<Lit(<<"f","r","o","m">>), Lit(<<"v","i","a">>), Lit(<<"t","o">>)>>), Lit(<<"-">>), Alt(<<Lit(<<"i","n","h","e","r","i","t">>), Lit(<<"c","u","r","r","e","n","t">>), Lit(<<"t","r","a","n","s","p","a","r","e","n","t">>), Lit(<<"b","l","a","c","k">>), Lit(<<"w","h","i","t","e">>)>>), Lit(<<"/">>), Plus(In(Digit)), Eol>>),
    Cat(<<Bol, Alt(<<Lit(<<"f","r","o","m">>), Lit(<<"v","i","a">>), Lit(<<"t","o">>)>>), Lit(<<"-">>), Alt(<<Lit(<<"s","l","a","t","e">>), Lit(<<"g","r","a","y">>), Lit(<<"z","i","n","c">>), Lit(<<"n","e","u","t","r","a","l">>), Lit(<<"s","t","o","n","e">>), Lit(<<"r","e","d">>), Lit(<<"o","r","a","n","g","e">>), Lit(<<"a","m","b","e","r">>), Lit(<<"y","e","l","l","o","w">>), Lit(<<"l","i","m","e">>), Lit(<<"g","r","e","e","n">>), Lit(<<"e","m","e","r","a","l","d">>), Lit(<<"t","e","a","l">>), Lit(<<"c","y","a","n">>), Lit(<<"s","k","y">>), Lit(<<"b","l","u","e">>), Lit(<<"i","n","d","i","g","o">>), Lit(<<"v","i","o","l","e","t">>), Lit(<<"p","u","r","p","l","e">>), Lit(<<"f","u","c","h","s","i","a">>), Lit(<<"p","i","n","k">>), Lit(<<"r","o","s","e">>)>>), Lit(<<"-">>), Alt(<<Lit(<<"5","0">>), Lit(<<"1","0","0">>), Lit(<<"2","0","0">>), Lit(<<"3","0","0">>), Lit(<<"4","0","0">>), Lit(<<"5","0","0">>), Lit(<<"6","0","0">>), Lit(<<"7","0","0">>), Lit(<<"8","0","0">>), Lit(<<"9","0","0">>), Lit(<<"9","5","0">>)>>), Lit(<<"/">>), Plus(In(Digit)), Eol>>),
    Cat(<<Bol, Alt(<<Lit(<<"f","r","o","m">>), Lit(<<"v","i","a">>), Lit(<<"t","o">>)>>), Lit(<<"-">>), Plus(In(WordChar \cup {"-"})), Eol>>),
    Cat(<<Bol, Alt(<<Lit(<<"f","r","o","m">>), Lit(<<"v","i","a">>), Lit(<<"t","o">>)>>), Lit(<<"-">>), Plus(In(WordChar \cup {"-"})), Lit(<<"/">>), Plus(In(Digit)), Eol>>),
    Cat(<<Bol, Lit(<<"b","o","r","d","e","r">>), Eol>>),
    Cat(<<Bol, Lit(<<"b","o","r","d","e","r","-">>), Alt(<<Cat(<<Plus(In(Digit)), Opt(Lit(<<".">>)), Star(In(Digit))>>), Lit(<<"p","x">>)>>), Eol>>),
    Cat(<<Bol, Lit(<<"b","o","r","d","e","r","-">>), Alt(<<Lit(<<"x">>), Lit(<<"y">>), Lit(<<"s">>), Lit(<<"e">>), Lit(<<"t">>), Lit(<<"r">>), Lit(<<"b">>), Lit(<<"l">>)>>), Eol>>),
    Cat(<<Bol, Lit(<<"b","o","r","d","e","r","-">>), Alt(<<Lit(<<"x">>), Lit(<<"y">>), Lit(<<"s">>), Lit(<<"e">>), Lit(<<"t">>), Lit(<<"r">>), Lit(<<"b">>), Lit(<<"l">>)>>), Lit(<<"-">>), Alt(<<Cat(<<Plus(In(Digit)), Opt(Lit(<<".">>)), Star(In(Digit))>>), Lit(<<"p","x">>)>>), Eol>>),
    Cat(<<Bol, Lit(<<"b","o","r","d","e","r","-">>), Alt(<<Lit(<<"s","o","l","i","d">>), Lit(<<"d","a","s","h","e","d">>), Lit(<<"d","o","t","t","e","d">>), Lit(<<"d","o","u","b","l","e">>), Lit(<<"h","i","d","d","e","n">>), Lit(<<"n","o","n","e">>)>>), Eol>>),
    Cat(<<Bol, Alt(<<Lit(<<"d","i","v","i","d","e","-","x">>), Lit(<<"d","i","v","i","d","e","-","y">>)>>), Opt(Alt(<<Cat(<<Lit(<<"-">>), Plus(In(Digit))>>), Lit(<<"-","r","e","v","e","r","s","e">>)>>)), Eol>>),
    Cat(<<Bol, Lit(<<"d","i","v","i","d","e","-">>), Alt(<<Lit(<<"s","o","l","i","d">>), Lit(<<"d","a","s","h","e","d">>), Lit(<<"d","o","t","t","e","d">>), Lit(<<"d","o","u","b","l","e">>), Lit(<<"n","o","n","e">>)>>), Eol>>),
    Cat(<<Bol, Lit(<<"o","u","t","l","i","n","e">>), Opt(Alt(<<Cat(<<Lit(<<"-">>), Plus(In(Digit))>>), Lit(<<"-","n","o","n","e">>), Lit(<<"-","d","a","s","h","e","d">>), Lit(<<"-","d","o","t","t","e","d">>), Lit(<<"-","d","o","u","b","l","e">>), Lit(<<"-","h","i","d","d","e","n">>)>>)), Eol>>),
    Cat(<<Bol, Lit(<<"o","u","t","l","i","n","e","-","o","f","f","s","e","t","-">>), Plus(In(Digit)), Eol>>),
    Cat(<<Bol, Lit(<<"r","i","n","g">>), Opt(Alt(<<Cat(<<Lit(<<"-">>), Plus(In(Digit))>>), Lit(<<"-","i","n","s","e","t">>)>>)), Eol>>),
    Cat(<<Bol, Lit(<<"r","i","n","g","-","o","f","f","s","e","t","-">>), Plus(In(Digit)), Eol>>),
    Cat(<<Bol, Lit(<<"r","o","u","n","d","e","d">>), Opt(Alt(<<Lit(<<"-","n","o","n","e">>), Lit(<<"-","s","m">>), Lit(<<"-","m","d">>), Lit(<<"-","l","g">>), Lit(<<"-","x","l">>), Lit(<<"-","2","x","l">>), Lit(<<"-","3","x","l">>), Lit(<<"-","f","u","l","l">>)>>)), Eol>>),
    Cat(<<Bol, Lit(<<"r","o","u","n","d","e","d","-">>), Alt(<<Lit(<<"s">>), Lit(<<"e">>), Lit(<<"t">>), Lit(<<"r">>), Lit(<<"b">>), Lit(<<"l">>), Lit(<<"s","s">>), Lit(<<"s","e">>), Lit(<<"e","e">>), Lit(<<"e","s">>), Lit(<<"t","l">>), Lit(<<"t","r">>), Lit(<<"b","r">>), Lit(<<"b","l">>)>>), Opt(Alt(<<Lit(<<"-","n","o","n","e">>), Lit(<<"-","s","m">>), Lit(<<"-","m","d">>), Lit(<<"-","l","g">>), Lit(<<"-","x","l">>), Lit(<<"-","2","x","l">>), Lit(<<"-","3","x","l">>), Lit(<<"-","f","u","l","l">>)>>)), Eol>>),
    Cat(<<Bol, Lit(<<"s","h","a","d","o","w">>), Opt(Alt(<<Lit(<<"-","n","o","n","e">>), Lit(<<"-","s","m">>), Lit(<<"-","m","d">>), Lit(<<"-","l","g">>), Lit(<<"-","x","l">>), Lit(<<"-","2","x","l">>), Lit(<<"-","3","x","l">>), Lit(<<"-","i","n","n","e","r">>)>>)), Eol>>),
    Cat(<<Bol, Lit(<<"s","h","a","d","o","w","-">>), Plus(In(WordChar)), Lit(<<"-">>), Plus(In(Digit)), Opt(Cat(<<Lit(<<"/">>), Plus(In(Digit))>>)), Eol>>),
    Cat(<<Bol, Lit(<<"o","p","a","c","i","t","y","-">>), Plus(In(Digit)), Eol>>),
    Cat(<<Bol, Lit(<<"m","i","x","-","b","l","e","n","d","-">>), Alt(<<Lit(<<"n","o","r","m","a","l">>), Lit(<<"m","u","l","t","i","p","l","y">>), Lit(<<"s","c","r","e","e","n">>), Lit(<<"o","v","e","r","l","a","y">>), Lit(<<"d","a","r","k","e","n">>), Lit(<<"l","i","g","h","t","e","n">>), Lit(<<"c","o","l","o","r","-","d","o","d","g","e">>), Lit(<<"c","o","l","o","r","-","b","u","r","n">>), Lit(<<"h","a","r","d","-","l","i","g","h","t">>), Lit(<<"s","o","f","t","-","l","i","g","h","t">>), Lit(<<"d","i","f","f","e","r","e","n","c","e">>), Lit(<<"e","x","c","l","u","s","i","o","n">>), Lit(<<"h","u","e">>), Lit(<<"s","a","t","u","r","a","t","i","o","n">>), Lit(<<"c","o","l","o","r">>), Lit(<<"l","u","m","i","n","o","s","i","t","y">>), Lit(<<"p","l","u","s","-","d","a","r","k","e","r">>), Lit(<<"p","l","u","s","-","l","i","g","h","t","e","r">>)>>), Eol>>),
    Cat(<<Bol, Lit(<<"b","g","-","b","l","e","n","d","-">>), Alt(<<Lit(<<"n","o","r","m","a","l">>), Lit(<<"m","u","l","t","i","p","l","y">>), Lit(<<"s","c","r","e","e","n">>), Lit(<<"o","v","e","r","l","a","y">>), Lit(<<"d","a","r","k","e","n">>), Lit(<<"l","i","g","h","t","e","n">>), Lit(<<"c","o","l","o","r","-","d","o","d","g","e">>), Lit(<<"c","o","l","o","r","-","b","u","r","n">>), Lit(<<"h","a","r","d","-","l","i","g","h","t">>), Lit(<<"s","o","f","t","-","l","i","g","h","t">>), Lit(<<"d","i","f","f","e","r","e","n","c","e">>), Lit(<<"e","x","c","l","u","s","i","o","n">>), Lit(<<"h","u","e">>), Lit(<<"s","a","t","u","r","a","t","i","o","n">>), Lit(<<"c","o","l","o","r">>), Lit(<<"l","u","m","i","n","o","s","i","t","y">>)>>), Eol>>),
    Cat(<<Bol, Alt(<<Lit(<<"b","l","u","r">>), Lit(<<"b","r","i","g","h","t","n","e","s","s">>), Lit(<<"c","o","n","t","r","a","s","t">>), Lit(<<"d","r","o","p","-","s","h","a","d","o","w">>), Lit(<<"g","r","a","y","s","c","a","l","e">>), Lit(<<"h","u","e","-","r","o","t","a","t","e">>), Lit(<<"i","n","v","e","r","t">>), Lit(<<"s","a","t","u","r","a","t","e">>), Lit(<<"s","e","p","i","a">>)>>), Opt(Alt(<<Lit(<<"-","n","o","n","e">>), Lit(<<"-","x","s">>), Lit(<<"-","s","m">>), Lit(<<"-","m","d">>), Lit(<<"-","l","g">>), Lit(<<"-","x","l">>), Lit(<<"-","2","x","l">>), Lit(<<"-","3","x","l">>)>>)), Eol>>),
    Cat(<<Bol, Lit(<<"b","a","c","k","d","r","o","p","-">>), Alt(<<Lit(<<"b","l","u","r">>), Lit(<<"b","r","i","g","h","t","n","e","s","s">>), Lit(<<"c","o","n","t","r","a","s","t">>), Lit(<<"g","r","a","y","s","c","a","l","e">>), Lit(<<"h","u","e","-","r","o","t","a","t","e">>), Lit(<<"i","n","v","e","r","t">>), Lit(<<"o","p","a","c","i","t","y">>), Lit(<<"s","a","t","u","r","a","t","e">>), Lit(<<"s","e","p","i","a">>)>>), Opt(Alt(<<Lit(<<"-","n","o","n","e">>), Lit(<<"-","x","s">>), Lit(<<"-","s","m">>), Lit(<<"-","m","d">>), Lit(<<"-","l","g">>), Lit(<<"-","x","l">>), Lit(<<"-","2","x","l">>), Lit(<<"-","3","x","l">>)>>)), Eol>>),
    Cat(<<Bol, Alt(<<Lit(<<"b","o","r","d","e","r","-","c","o","l","l","a","p","s","e">>), Lit(<<"b","o","r","d","e","r","-","s","e","p","a","r","a","t","e">>)>>), Eol>>),
    Cat(<<Bol, Alt(<<Lit(<<"t","a","b","l","e","-","a","u","t","o">>), Lit(<<"t","a","b","l","e","-","f","i","x","e","d">>)>>), Eol>>),
    Cat(<<Bol, Lit(<<"c","a","p","t","i","o","n","-">>), Alt(<<Lit(<<"t","o","p">>), Lit(<<"b","o","t","t","o","m">>)>>), Eol>>),
    Cat(<<Bol, Lit(<<"a","n","i","m","a","t","e","-">>), Alt(<<Lit(<<"n","o","n","e">>), Lit(<<"s","p","i","n">>), Lit(<<"p","i","n","g">>), Lit(<<"p","u","l","s","e">>), Lit(<<"b","o","u","n","c","e">>)>>), Eol>>),
    Cat(<<Bol, Lit(<<"a","n","i","m","a","t","e","-">>), Plus(In(WordChar \cup {"-"})), Eol>>),
    Cat(<<Bol, Alt(<<Lit(<<"t","r","a","n","s","f","o","r","m">>), Lit(<<"t","r","a","n","s","f","o","r","m","-","c","p","u">>), Lit(<<"t","r","a","n","s","f","o","r","m","-","g","p","u">>), Lit(<<"t","r","a","n","s","f","o","r","m","-","n","o","n","e">>)>>), Eol>>),
    Cat(<<Bol, Opt(Lit(<<"-">>)), Lit(<<"s","c","a","l","e">>), Opt(Alt(<<Cat(<<Lit(<<"-">>), Plus(In(Digit))>>), Cat(<<Lit(<<"-","x","-">>), Plus(In(Digit))>>), Cat(<<Lit(<<"-","y","-">>), Plus(In(Digit))>>)>>)), Eol>>),
    Cat(<<Bol, Opt(Lit(<<"-">>)), Lit(<<"r","o","t","a","t","e","-">>), Plus(In(Digit)), Eol>>),
    Cat(<<Bol, Opt(Lit(<<"-">>)), Lit(<<"t","r","a","n","s","l","a","t","e","-">>), Alt(<<Lit(<<"x">>), Lit(<<"y">>)>>), Lit(<<"-">>), Alt(<<Cat(<<Plus(In(Digit)), Opt(Lit(<<".">>)), Star(In(Digit))>>), Lit(<<"p","x">>), Lit(<<"f","u","l","l">>), Cat(<<Plus(In(Digit)), Lit(<<"/">>), Plus(In(Digit))>>)>>), Eol>>),
    Cat(<<Bol, Opt(Lit(<<"-">>)), Lit(<<"s","k","e","w","-">>), Alt(<<Lit(<<"x">>), Lit(<<"y">>)>>), Lit(<<"-">>), Plus(In(Digit)), Eol>>),
    Cat(<<Bol, Lit(<<"o","r","i","g","i","n","-">>), Alt(<<Lit(<<"c","e","n","t","e","r">>), Lit(<<"t","o","p">>), Lit(<<"t","o","p","-","r","i","g","h","t">>), Lit(<<"r","i","g","h","t">>), Lit(<<"b","o","t","t","o","m","-","r","i","g","h","t">>), Lit(<<"b","o","t","t","o","m">>), Lit(<<"b","o","t","t","o","m","-","l","e","f","t">>), Lit(<<"l","e","f","t">>), Lit(<<"t","o","p","-","l","e","f","t">>)>>), Eol>>),
    Cat(<<Bol, Lit(<<"t","r","a","n","s","i","t","i","o","n">>), Opt(Alt(<<Lit(<<"-","n","o","n","e">>), Lit(<<"-","a","l","l">>), Lit(<<"-","c","o","l","o","r","s">>), Lit(<<"-","o","p","a","c","i","t","y">>), Lit(<<"-","s","h","a","d","o","w">>), Lit(<<"-","t","r","a","n","s","f","o","r","m">>)>>)), Eol>>),
    Cat(<<Bol, Lit(<<"d","u","r","a","t","i","o","n","-">>), Plus(In(Digit)), Eol>>),
    Cat(<<Bol, Lit(<<"d","e","l","a","y","-">>), Plus(In(Digit)), Eol>>),
    Cat(<<Bol, Lit(<<"e","a","s","e","-">>), Alt(<<Lit(<<"l","i","n","e","a","r">>), Lit(<<"i","n">>), Lit(<<"o","u","t">>), Lit(<<"i","n","-","o","u","t">>)>>), Eol>>),
    Cat(<<Bol, Alt(<<Lit(<<"s","t","a","t","i","c">>), Lit(<<"f","i","x","e","d">>), Lit(<<"a","b","s","o","l","u","t","e">>), Lit(<<"r","e","l","a","t","i","v","e">>), Lit(<<"s","t","i","c","k","y">>)>>), Eol>>),
    Cat(<<Bol, Opt(Lit(<<"-">>)), Alt(<<Lit(<<"i","n","s","e","t">>), Lit(<<"i","n","s","e","t","-","x">>), Lit(<<"i","n","s","e","t","-","y">>), Lit(<<"t","o","p">>), Lit(<<"r","i","g","h","t">>), Lit(<<"b","o","t","t","o","m">>), Lit(<<"l","e","f","t">>)>>), Lit(<<"-">>), Alt(<<Cat(<<Plus(In(Digit)), Opt(Lit(<<".">>)), Star(In(Digit))>>), Lit(<<"p","x">>), Lit(<<"a","u","t","o">>), Lit(<<"f","u","l","l">>), Cat(<<Plus(In(Digit)), Lit(<<"/">>), Plus(In(Digit))>>)>>), Eol>>),
    Cat(<<Bol, Opt(Lit(<<"-">>)), Lit(<<"z","-">>), Alt(<<Plus(In(Digit)), Lit(<<"a","u","t","o">>)>>), Eol>>),
    Cat(<<Bol, Alt(<<Lit(<<"o","v","e","r","f","l","o","w">>), Lit(<<"o","v","e","r","f","l","o","w","-","x">>), Lit(<<"o","v","e","r","f","l","o","w","-","y">>)>>), Lit(<<"-">>), Alt(<<Lit(<<"a","u","t","o">>), Lit(<<"h","i","d","d","e","n">>), Lit(<<"c","l","i","p">>), Lit(<<"v","i","s","i","b","l","e">>), Lit(<<"s","c","r","o","l","l">>)>>), Eol>>),
    Cat(<<Bol, Alt(<<Lit(<<"o","v","e","r","s","c","r","o","l","l">>), Lit(<<"o","v","e","r","s","c","r","o","l","l","-","x">>), Lit(<<"o","v","e","r","s","c","r","o","l","l","-","y">>)>>), Lit(<<"-">>), Alt(<<Lit(<<"a","u","t","o">>), Lit(<<"c","o","n","t","a","i","n">>), Lit(<<"n","o","n","e">>)>>), Eol>>),
    Cat(<<Bol, Alt(<<Lit(<<"v","i","s","i","b","l","e">>), Lit(<<"i","n","v","i","s","i","b","l","e">>), Lit(<<"c","o","l","l","a","p","s","e">>)>>), Eol>>),
    Cat(<<Bol, Alt(<<Lit(<<"i","s","o","l","a","t","e">>), Lit(<<"i","s","o","l","a","t","i","o","n","-","a","u","t","o">>)>>), Eol>>),
    Cat(<<Bol, Lit(<<"o","b","j","e","c","t","-">>), Alt(<<Lit(<<"c","o","n","t","a","i","n">>), Lit(<<"c","o","v","e","r">>), Lit(<<"f","i","l","l">>), Lit(<<"n","o","n","e">>), Lit(<<"s","c","a","l","e","-","d","o","w","n">>)>>), Eol>>),
    Cat(<<Bol, Lit(<<"o","b","j","e","c","t","-">>), Alt(<<Lit(<<"b","o","t","t","o","m">>), Lit(<<"c","e","n","t","e","r">>), Lit(<<"l","e","f","t">>), Lit(<<"l","e","f","t","-","b","o","t","t","o","m">>), Lit(<<"l","e","f","t","-","t","o","p">>), Lit(<<"r","i","g","h","t">>), Lit(<<"r","i","g","h","t","-","b","o","t","t","o","m">>), Lit(<<"r","i","g","h","t","-","t","o","p">>), Lit(<<"t","o","p">>)>>), Eol>>),
    Cat(<<Bol, Alt(<<Lit(<<"a","p","p","e","a","r","a","n","c","e","-","n","o","n","e">>), Lit(<<"a","p","p","e","a","r","a","n","c","e","-","a","u","t","o">>)>>), Eol>>),
    Cat(<<Bol, Lit(<<"c","u","r","s","o","r","-">>), Alt(<<Lit(<<"a","u","t","o">>), Lit(<<"d","e","f","a","u","l","t">>), Lit(<<"p","o","i","n","t","e","r">>), Lit(<<"w","a","i","t">>), Lit(<<"t","e","x","t">>), Lit(<<"m","o","v","e">>), Lit(<<"h","e","l","p">>), Lit(<<"n","o","t","-","a","l","l","o","w","e","d">>), Lit(<<"n","o","n","e">>), Lit(<<"c","o","n","t","e","x","t","-","m","e","n","u">>), Lit(<<"p","r","o","g","r","e","s","s">>), Lit(<<"c","e","l","l">>), Lit(<<"c","r","o","s","s","h","a","i","r">>), Lit(<<"v","e","r","t","i","c","a","l","-","t","e","x","t">>), Lit(<<"a","l","i","a","s">>), Lit(<<"c","o","p","y">>), Lit(<<"n","o","-","d","r","o","p">>), Lit(<<"g","r","a","b">>), Lit(<<"g","r","a","b","b","i","n","g">>), Lit(<<"a","l","l","-","s","c","r","o","l","l">>), Lit(<<"c","o","l","-","r","e","s","i","z","e">>), Lit(<<"r","o","w","-","r","e","s","i","z","e">>), Lit(<<"n","-","r","e","s","i","z","e">>), Lit(<<"e","-","r","e","s","i","z","e">>), Lit(<<"s","-","r","e","s","i","z","e">>), Lit(<<"w","-","r","e","s","i","z","e">>), Lit(<<"n","e","-","r","e","s","i","z","e">>), Lit(<<"n","w","-","r","e","s","i","z","e">>), Lit(<<"s","e","-","r","e","s","i","z","e">>), Lit(<<"s","w","-","r","e","s","i","z","e">>), Lit(<<"e","w","-","r","e","s","i","z","e">>), Lit(<<"n","s","-","r","e","s","i","z","e">>), Lit(<<"n","e","s","w","-","r","e","s","i","z","e">>), Lit(<<"n","w","s","e","-","r","e","s","i","z","e">>), Lit(<<"z","o","o","m","-","i","n">>), Lit(<<"z","o","o","m","-","o","u","t">>)>>), Eol>>),
    Cat(<<Bol, Lit(<<"c","a","r","e","t","-">>), Plus(In(WordChar)), Lit(<<"-">>), Plus(In(Digit)), Eol>>),
    Cat(<<Bol, Lit(<<"p","o","i","n","t","e","r","-","e","v","e","n","t","s","-">>), Alt(<<Lit(<<"n","o","n","e">>), Lit(<<"a","u","t","o">>)>>), Eol>>),
    Cat(<<Bol, Lit(<<"r","e","s","i","z","e">>), Opt(Alt(<<Lit(<<"-","n","o","n","e">>), Lit(<<"-","y">>), Lit(<<"-","x">>)>>)), Eol>>),
    Cat(<<Bol, Lit(<<"s","c","r","o","l","l","-">>), Alt(<<Lit(<<"a","u","t","o">>), Lit(<<"s","m","o","o","t","h">>)>>), Eol>>),
    Cat(<<Bol, Lit(<<"s","c","r","o","l","l","-">>), Alt(<<Lit(<<"m">>), Lit(<<"p">>)>>), Opt(Alt(<<Lit(<<"-","x">>), Lit(<<"-","y">>), Lit(<<"-","s">>), Lit(<<"-","e">>), Lit(<<"-","t">>), Lit(<<"-","r">>), Lit(<<"-","b">>), Lit(<<"-","l">>)>>)), Lit(<<"-">>), Alt(<<Cat(<<Plus(In(Digit)), Opt(Lit(<<".">>)), Star(In(Digit))>>), Lit(<<"p","x">>)>>), Eol>>),
    Cat(<<Bol, Lit(<<"s","n","a","p","-">>), Alt(<<Lit(<<"n","o","n","e">>), Lit(<<"x">>), Lit(<<"y">>), Lit(<<"b","o","t","h">>), Lit(<<"m","a","n","d","a","t","o","r","y">>), Lit(<<"p","r","o","x","i","m","i","t","y">>)>>), Eol>>),
    Cat(<<Bol, Lit(<<"s","n","a","p","-">>), Alt(<<Lit(<<"s","t","a","r","t">>), Lit(<<"e","n","d">>), Lit(<<"c","e","n","t","e","r">>), Lit(<<"a","l","i","g","n","-","n","o","n","e">>)>>), Eol>>),
    Cat(<<Bol, Lit(<<"t","o","u","c","h","-">>), Alt(<<Lit(<<"a","u","t","o">>), Lit(<<"n","o","n","e">>), Lit(<<"p","a","n","-","x">>), Lit(<<"p","a","n","-","l","e","f","t">>), Lit(<<"p","a","n","-","r","i","g","h","t">>), Lit(<<"p","a","n","-","y">>), Lit(<<"p","a","n","-","u","p">>), Lit(<<"p","a","n","-","d","o","w","n">>), Lit(<<"p","i","n","c","h","-","z","o","o","m">>), Lit(<<"m","a","n","i","p","u","l","a","t","i","o","n">>)>>), Eol>>),
    Cat(<<Bol, Lit(<<"s","e","l","e","c","t","-">>), Alt(<<Lit(<<"n","o","n","e">>), Lit(<<"t","e","x","t">>), Lit(<<"a","l","l">>), Lit(<<"a","u","t","o">>)>>), Eol>>),
    Cat(<<Bol, Lit(<<"w","i","l","l","-","c","h","a","n","g","e","-">>), Alt(<<Lit(<<"a","u","t","o">>), Lit(<<"s","c","r","o","l","l">>), Lit(<<"c","o","n","t","e","n","t","s">>), Lit(<<"t","r","a","n","s","f","o","r","m">>)>>), Eol>>),
    Cat(<<Bol, Lit(<<"f","i","l","l","-">>), Alt(<<Lit(<<"n","o","n","e">>), Lit(<<"c","u","r","r","e","n","t">>), Cat(<<Plus(In(WordChar)), Lit(<<"-">>), Plus(In(Digit))>>)>>), Eol>>),
    Cat(<<Bol, Lit(<<"s","t","r","o","k","e","-">>), Alt(<<Lit(<<"n","o","n","e">>), Lit(<<"c","u","r","r","e","n","t">>), Cat(<<Plus(In(WordChar)), Lit(<<"-">>), Plus(In(Digit))>>), Plus(In(Digit))>>), Eol>>),
    Cat(<<Bol, Alt(<<Lit(<<"s","r","-","o","n","l","y">>), Lit(<<"n","o","t","-","s","r","-","o","n","l","y">>)>>), Eol>>),
    Cat(<<Bol, Lit(<<"g","r","i","d","-","c","o","l","s","-">>), Alt(<<Lit(<<"n","o","n","e">>), Plus(In(Digit)), Lit(<<"s","u","b","g","r","i","d">>)>>), Eol>>),
    Cat(<<Bol, Lit(<<"c","o","l","-">>), Alt(<<Lit(<<"a","u","t","o">>), Cat(<<Lit(<<"s","p","a","n","-">>), Plus(In(Digit))>>), Lit(<<"s","p","a","n","-","f","u","l","l">>), Cat(<<Lit(<<"s","t","a","r","t","-">>), Plus(In(Digit))>>), Lit(<<"s","t","a","r","t","-","a","u","t","o">>), Cat(<<Lit(<<"e","n","d","-">>), Plus(In(Digit))>>), Lit(<<"e","n","d","-","a","u","t","o">>)>>), Eol>>),
    Cat(<<Bol, Lit(<<"g","r","i","d","-","r","o","w","s","-">>), Alt(<<Lit(<<"n","o","n","e">>), Plus(In(Digit)), Lit(<<"s","u","b","g","r","i","d">>)>>), Eol>>),
    Cat(<<Bol, Lit(<<"r","o","w","-">>), Alt(<<Lit(<<"a","u","t","o">>), Cat(<<Lit(<<"s","p","a","n","-">>), Plus(In(Digit))>>), Lit(<<"s","p","a","n","-","f","u","l","l">>), Cat(<<Lit(<<"s","t","a","r","t","-">>), Plus(In(Digit))>>), Lit(<<"s","t","a","r","t","-","a","u","t","o">>), Cat(<<Lit(<<"e","n","d","-">>), Plus(In(Digit))>>), Lit(<<"e","n","d","-","a","u","t","o">>)>>), Eol>>),
    Cat(<<Bol, Lit(<<"g","r","i","d","-","f","l","o","w","-">>), Alt(<<Lit(<<"r","o","w">>), Lit(<<"c","o","l">>), Lit(<<"d","e","n","s","e">>), Lit(<<"r","o","w","-","d","e","n","s","e">>), Lit(<<"c","o","l","-","d","e","n","s","e">>)>>), Eol>>),
    Cat(<<Bol, Lit(<<"a","u","t","o","-">>), Alt(<<Lit(<<"c","o","l","s">>), Lit(<<"r","o","w","s">>)>>), Lit(<<"-">>), Alt(<<Lit(<<"a","u","t","o">>), Lit(<<"m","i","n">>), Lit(<<"m","a","x">>), Lit(<<"f","r">>)>>), Eol>>),
    Cat(<<Bol, Lit(<<"l","i","s","t","-">>), Alt(<<Lit(<<"n","o","n","e">>), Lit(<<"d","i","s","c">>), Lit(<<"d","e","c","i","m","a","l">>)>>), Eol>>),
    Cat(<<Bol, Lit(<<"l","i","s","t","-">>), Alt(<<Lit(<<"i","n","s","i","d","e">>), Lit(<<"o","u","t","s","i","d","e">>)>>), Eol>>),
    Cat(<<Bol, Lit(<<"m","a","r","k","e","r","-">>), Plus(In(WordChar)), Lit(<<"-">>), Plus(In(Digit)), Eol>>),
    Cat(<<Bol, Alt(<<Lit(<<"h","o","v","e","r">>), Lit(<<"f","o","c","u","s">>), Lit(<<"f","o","c","u","s","-","w","i","t","h","i","n">>), Lit(<<"f","o","c","u","s","-","v","i","s","i","b","l","e">>), Lit(<<"a","c","t","i","v","e">>), Lit(<<"v","i","s","i","t","e","d">>), Lit(<<"t","a","r","g","e","t">>), Lit(<<"f","i","r","s","t">>), Lit(<<"l","a","s","t">>), Lit(<<"o","n","l","y">>), Lit(<<"o","d","d">>), Lit(<<"e","v","e","n">>), Lit(<<"f","i","r","s","t","-","o","f","-","t","y","p","e">>), Lit(<<"l","a","s","t","-","o","f","-","t","y","p","e">>), Lit(<<"o","n","l","y","-","o","f","-","t","y","p","e">>), Lit(<<"e","m","p","t","y">>), Lit(<<"d","i","s","a","b","l","e","d">>), Lit(<<"e","n","a","b","l","e","d">>), Lit(<<"c","h","e","c","k","e","d">>), Lit(<<"i","n","d","e","t","e","r","m","i","n","a","t","e">>), Lit(<<"d","e","f","a","u","l","t">>), Lit(<<"r","e","q","u","i","r","e","d">>), Lit(<<"v","a","l","i","d">>), Lit(<<"i","n","v","a","l","i","d">>), Lit(<<"i","n","-","r","a","n","g","e">>), Lit(<<"o","u","t","-","o","f","-","r","a","n","g","e">>), Lit(<<"p","l","a","c","e","h","o","l","d","e","r","-","s","h","o","w","n">>), Lit(<<"a","u","t","o","f","i","l","l">>), Lit(<<"r","e","a","d","-","o","n","l","y">>)>>), Lit(<<":">>)>>),
    Cat(<<Bol, Alt(<<Lit(<<"f","i","r","s","t","-","l","e","t","t","e","r">>), Lit(<<"f","i","r","s","t","-","l","i","n","e">>), Lit(<<"s","e","l","e","c","t","i","o","n">>), Lit(<<"m","a","r","k","e","r">>), Lit(<<"p","l","a","c","e","h","o","l","d","e","r">>), Lit(<<"f","i","l","e">>)>>), Lit(<<":">>)>>),
    Cat(<<Bol, Alt(<<Lit(<<"g","r","o","u","p","-","h","o","v","e","r">>), Lit(<<"g","r","o","u","p","-","f","o","c","u","s">>), Lit(<<"g","r","o","u","p","-","a","c","t","i","v","e">>), Lit(<<"g","r","o","u","p","-","f","o","c","u","s","-","w","i","t","h","i","n">>), Lit(<<"g","r","o","u","p","-","f","o","c","u","s","-","v","i","s","i","b","l","e">>), Lit(<<"g","r","o","u","p","-","v","i","s","i","t","e","d">>), Lit(<<"g","r","o","u","p","-","t","a","r","g","e","t">>), Lit(<<"g","r","o","u","p","-","f","i","r","s","t">>), Lit(<<"g","r","o","u","p","-","l","a","s","t">>), Lit(<<"g","r","o","u","p","-","o","n","l","y">>), Lit(<<"g","r","o","u","p","-","o","d","d">>), Lit(<<"g","r","o","u","p","-","e","v","e","n">>), Lit(<<"g","r","o","u","p","-","f","i","r","s","t","-","o","f","-","t","y","p","e">>), Lit(<<"g","r","o","u","p","-","l","a","s","t","-","o","f","-","t","y","p","e">>), Lit(<<"g","r","o","u","p","-","o","n","l","y","-","o","f","-","t","y","p","e">>), Lit(<<"g","r","o","u","p","-","e","m","p","t","y">>), Lit(<<"g","r","o","u","p","-","d","i","s","a","b","l","e","d">>), Lit(<<"g","r","o","u","p","-","e","n","a","b","l","e","d">>), Lit(<<"g","r","o","u","p","-","c","h","e","c","k","e","d">>), Lit(<<"g","r","o","u","p","-","i","n","d","e","t","e","r","m","i","n","a","t","e">>), Lit(<<"g","r","o","u","p","-","d","e","f","a","u","l","t">>), Lit(<<"g","r","o","u","p","-","r","e","q","u","i","r","e","d">>), Lit(<<"g","r","o","u","p","-","v","a","l","i","d">>), Lit(<<"g","r","o","u","p","-","i","n","v","a","l","i","d">>), Lit(<<"g","r","o","u","p","-","i","n","-","r","a","n","g","e">>), Lit(<<"g","r","o","u","p","-","o","u","t","-","o","f","-","r","a","n","g","e">>), Lit(<<"g","r","o","u","p","-","p","l","a","c","e","h","o","l","d","e","r","-","s","h","o","w","n">>), Lit(<<"g","r","o","u","p","-","a","u","t","o","f","i","l","l">>), Lit(<<"g","r","o","u","p","-","r","e","a","d","-","o","n","l","y">>)>>), Lit(<<":">>)>>),
    Cat(<<Bol, Lit(<<"g","r","o","u","p","-","h","a","s","-","[">>), StarLazy(NotIn(LineTerminator)), Lit(<<"]",":">>)>>),
    Cat(<<Bol, Alt(<<Lit(<<"g","r","o","u","p","-","h","a","s","-","h","o","v","e","r">>), Lit(<<"g","r","o","u","p","-","h","a","s","-","f","o","c","u","s">>), Lit(<<"g","r","o","u","p","-","h","a","s","-","a","c","t","i","v","e">>), Lit(<<"g","r","o","u","p","-","h","a","s","-","d","i","s","a","b","l","e","d">>), Lit(<<"g","r","o","u","p","-","h","a","s","-","c","h","e","c","k","e","d">>), Lit(<<"g","r","o","u","p","-","h","a","s","-","s","e","l","e","c","t","e","d">>), Lit(<<"g","r","o","u","p","-","h","a","s","-","v","a","l","i","d">>), Lit(<<"g","r","o","u","p","-","h","a","s","-","i","n","v","a","l","i","d">>), Lit(<<"g","r","o","u","p","-","h","a","s","-","r","e","q","u","i","r","e","d">>), Lit(<<"g","r","o","u","p","-","h","a","s","-","o","p","t","i","o","n","a","l">>)>>), Lit(<<":">>)>>),
    Cat(<<Bol, Lit(<<"g","r","o","u","p","-">>), Plus(In(WordChar \cup {"-"})), Lit(<<"/">>), Plus(In(WordChar \cup {"-"})), Lit(<<":">>), Plus(In(WordChar \cup {"-"})), Eol>>),
    Cat(<<Bol, Alt(<<Lit(<<"p","e","e","r","-","h","o","v","e","r">>), Lit(<<"p","e","e","r","-","f","o","c","u","s">>), Lit(<<"p","e","e","r","-","a","c","t","i","v","e">>), Lit(<<"p","e","e","r","-","f","o","c","u","s","-","w","i","t","h","i","n">>), Lit(<<"p","e","e","r","-","f","o","c","u","s","-","v","i","s","i","b","l","e">>), Lit(<<"p","e","e","r","-","v","i","s","i","t","e","d">>), Lit(<<"p","e","e","r","-","t","a","r","g","e","t">>), Lit(<<"p","e","e","r","-","f","i","r","s","t">>), Lit(<<"p","e","e","r","-","l","a","s","t">>), Lit(<<"p","e","e","r","-","o","n","l","y">>), Lit(<<"p","e","e","r","-","o","d","d">>), Lit(<<"p","e","e","r","-","e","v","e","n">>), Lit(<<"p","e","e","r","-","f","i","r","s","t","-","o","f","-","t","y","p","e">>), Lit(<<"p","e","e","r","-","l","a","s","t","-","o","f","-","t","y","p","e">>), Lit(<<"p","e","e","r","-","o","n","l","y","-","o","f","-","t","y","p","e">>), Lit(<<"p","e","e","r","-","e","m","p","t","y">>), Lit(<<"p","e","e","r","-","d","i","s","a","b","l","e","d">>), Lit(<<"p","e","e","r","-","e","n","a","b","l","e","d">>), Lit(<<"p","e","e","r","-","c","h","e","c","k","e","d">>), Lit(<<"p","e","e","r","-","i","n","d","e","t","e","r","m","i","n","a","t","e">>), Lit(<<"p","e","e","r","-","d","e","f","a","u","l","t">>), Lit(<<"p","e","e","r","-","r","e","q","u","i","r","e","d">>), Lit(<<"p","e","e","r","-","v","a","l","i","d">>), Lit(<<"p","e","e","r","-","i","n","v","a","l","i","d">>), Lit(<<"p","e","e","r","-","i","n","-","r","a","n","g","e">>), Lit(<<"p","e","e","r","-","o","u","t","-","o","f","-","r","a","n","g","e">>), Lit(<<"p","e","e","r","-","p","l","a","c","e","h","o","l","d","e","r","-","s","h","o","w","n">>), Lit(<<"p","e","e","r","-","a","u","t","o","f","i","l","l">>), Lit(<<"p","e","e","r","-","r","e","a","d","-","o","n","l","y">>)>>), Lit(<<":">>)>>),
    Cat(<<Bol, Lit(<<"p","e","e","r","-","h","a","s","-","[">>), StarLazy(NotIn(LineTerminator)), Lit(<<"]",":">>)>>),
    Cat(<<Bol, Alt(<<Lit(<<"p","e","e","r","-","h","a","s","-","h","o","v","e","r">>), Lit(<<"p","e","e","r","-","h","a","s","-","f","o","c","u","s">>), Lit(<<"p","e","e","r","-","h","a","s","-","a","c","t","i","v","e">>), Lit(<<"p","e","e","r","-","h","a","s","-","d","i","s","a","b","l","e","d">>), Lit(<<"p","e","e","r","-","h","a","s","-","c","h","e","c","k","e","d">>), Lit(<<"p","e","e","r","-","h","a","s","-","s","e","l","e","c","t","e","d">>), Lit(<<"p","e","e","r","-","h","a","s","-","v","a","l","i","d">>), Lit(<<"p","e","e","r","-","h","a","s","-","i","n","v","a","l","i","d">>), Lit(<<"p","e","e","r","-","h","a","s","-","r","e","q","u","i","r","e","d">>), Lit(<<"p","e","e","r","-","h","a","s","-","o","p","t","i","o","n","a","l">>)>>), Lit(<<":">>)>>),
    Cat(<<Bol, Alt(<<Lit(<<"s","m">>), Lit(<<"m","d">>), Lit(<<"l","g">>), Lit(<<"x","l">>), Lit(<<"2","x","l">>)>>), Lit(<<":">>)>>),
    Cat(<<Bol, Alt(<<Lit(<<"d","a","r","k">>), Lit(<<"l","i","g","h","t">>)>>), Lit(<<":">>)>>),
    Cat(<<Bol, Alt(<<Lit(<<"m","o","t","i","o","n","-","s","a","f","e">>), Lit(<<"m","o","t","i","o","n","-","r","e","d","u","c","e">>), Lit(<<"c","o","n","t","r","a","s","t","-","m","o","r","e">>), Lit(<<"c","o","n","t","r","a","s","t","-","l","e","s","s">>)>>), Lit(<<":">>)>>),
    Cat(<<Bol, Alt(<<Lit(<<"p","o","r","t","r","a","i","t">>), Lit(<<"l","a","n","d","s","c","a","p","e">>)>>), Lit(<<":">>)>>),
    Cat(<<Bol, Lit(<<"p","r","i","n","t",":">>)>>),
    Cat(<<Bol, Lit(<<"s","u","p","p","o","r","t","s","-","[">>), StarLazy(NotIn(LineTerminator)), Lit(<<"]",":">>)>>),
    Cat(<<Bol, Alt(<<Cat(<<Lit(<<"d","a","t","a","-","[">>), StarLazy(NotIn(LineTerminator)), Lit(<<"]">>)>>), Cat(<<Lit(<<"a","r","i","a","-","[">>), StarLazy(NotIn(LineTerminator)), Lit(<<"]">>)>>)>>), Lit(<<":">>)>>),
    Cat(<<Bol, Lit(<<"[","&">>), StarLazy(NotIn(LineTerminator)), Lit(<<"]",":">>)>>),
    Cat(<<Bol, Lit(<<"[">>), StarLazy(NotIn(LineTerminator)), Lit(<<"]">>), Eol>>)
>>

\* getBaseClass: new RegExp(`^${prefix}`) for each prefix (lines 944-980), in order
prefixes == <<
    Cat(<<Bol, Lit(<<"s","m",":">>)>>),
    Cat(<<Bol, Lit(<<"m","d",":">>)>>),
    Cat(<<Bol, Lit(<<"l","g",":">>)>>),
    Cat(<<Bol, Lit(<<"x","l",":">>)>>),
    Cat(<<Bol, Lit(<<"2","x","l",":">>)>>),
    Cat(<<Bol, Lit(<<"h","o","v","e","r",":">>)>>),
    Cat(<<Bol, Lit(<<"f","o","c","u","s",":">>)>>),
    Cat(<<Bol, Lit(<<"f","o","c","u","s","-","w","i","t","h","i","n",":">>)>>),
    Cat(<<Bol, Lit(<<"f","o","c","u","s","-","v","i","s","i","b","l","e",":">>)>>),
    Cat(<<Bol, Lit(<<"a","c","t","i","v","e",":">>)>>),
    Cat(<<Bol, Lit(<<"v","i","s","i","t","e","d",":">>)>>),
    Cat(<<Bol, Lit(<<"t","a","r","g","e","t",":">>)>>),
    Cat(<<Bol, Lit(<<"f","i","r","s","t",":">>)>>),
    Cat(<<Bol, Lit(<<"l","a","s","t",":">>)>>),
    Cat(<<Bol, Lit(<<"o","n","l","y",":">>)>>),
    Cat(<<Bol, Lit(<<"o","d","d",":">>)>>),
    Cat(<<Bol, Lit(<<"e","v","e","n",":">>)>>),
    Cat(<<Bol, Lit(<<"f","i","r","s","t","-","o","f","-","t","y","p","e",":">>)>>),
    Cat(<<Bol, Lit(<<"l","a","s","t","-","o","f","-","t","y","p","e",":">>)>>),
    Cat(<<Bol, Lit(<<"o","n","l","y","-","o","f","-","t","y","p","e",":">>)>>),
    Cat(<<Bol, Lit(<<"e","m","p","t","y",":">>)>>),
    Cat(<<Bol, Lit(<<"d","i","s","a","b","l","e","d",":">>)>>),
    Cat(<<Bol, Lit(<<"e","n","a","b","l","e","d",":">>)>>),
    Cat(<<Bol, Lit(<<"c","h","e","c","k","e","d",":">>)>>),
    Cat(<<Bol, Lit(<<"i","n","d","e","t","e","r","m","i","n","a","t","e",":">>)>>),
    Cat(<<Bol, Lit(<<"d","e","f","a","u","l","t",":">>)>>),
    Cat(<<Bol, Lit(<<"r","e","q","u","i","r","e","d",":">>)>>),
    Cat(<<Bol, Lit(<<"v","a","l","i","d",":">>)>>),
    Cat(<<Bol, Lit(<<"i","n","v","a","l","i","d",":">>)>>),
    Cat(<<Bol, Lit(<<"i","n","-","r","a","n","g","e",":">>)>>),
    Cat(<<Bol, Lit(<<"o","u","t","-","o","f","-","r","a","n","g","e",":">>)>>),
    Cat(<<Bol, Lit(<<"p","l","a","c","e","h","o","l","d","e","r","-","s","h","o","w","n",":">>)>>),
    Cat(<<Bol, Lit(<<"a","u","t","o","f","i","l","l",":">>)>>),
    Cat(<<Bol, Lit(<<"r","e","a","d","-","o","n","l","y",":">>)>>),
    Cat(<<Bol, Lit(<<"f","i","r","s","t","-","l","e","t","t","e","r",":">>)>>),
    Cat(<<Bol, Lit(<<"f","i","r","s","t","-","l","i","n","e",":">>)>>),
    Cat(<<Bol, Lit(<<"s","e","l","e","c","t","i","o","n",":">>)>>),
    Cat(<<Bol, Lit(<<"m","a","r","k","e","r",":">>)>>),
    Cat(<<Bol, Lit(<<"p","l","a","c","e","h","o","l","d","e","r",":">>)>>),
    Cat(<<Bol, Lit(<<"f","i","l","e",":">>)>>),
    Cat(<<Bol, Lit(<<"g","r","o","u","p","-","h","o","v","e","r",":">>)>>),
    Cat(<<Bol, Lit(<<"g","r","o","u","p","-","f","o","c","u","s",":">>)>>),
    Cat(<<Bol, Lit(<<"g","r","o","u","p","-","a","c","t","i","v","e",":">>)>>),
    Cat(<<Bol, Lit(<<"g","r","o","u","p","-","f","o","c","u","s","-","w","i","t","h","i","n",":">>)>>),
    Cat(<<Bol, Lit(<<"g","r","o","u","p","-","f","o","c","u","s","-","v","i","s","i","b","l","e",":">>)>>),
    Cat(<<Bol, Lit(<<"g","r","o","u","p","-","v","i","s","i","t","e","d",":">>)>>),
    Cat(<<Bol, Lit(<<"g","r","o","u","p","-","t","a","r","g","e","t",":">>)>>),
    Cat(<<Bol, Lit(<<"g","r","o","u","p","-","f","i","r","s","t",":">>)>>),
    Cat(<<Bol, Lit(<<"g","r","o","u","p","-","l","a","s","t",":">>)>>),
    Cat(<<Bol, Lit(<<"g","r","o","u","p","-","o","n","l","y",":">>)>>),
    Cat(<<Bol, Lit(<<"g","r","o","u","p","-","o","d","d",":">>)>>),
    Cat(<<Bol, Lit(<<"g","r","o","u","p","-","e","v","e","n",":">>)>>),
    Cat(<<Bol, Lit(<<"g","r","o","u","p","-","f","i","r","s","t","-","o","f","-","t","y","p","e",":">>)>>),
    Cat(<<Bol, Lit(<<"g","r","o","u","p","-","l","a","s","t","-","o","f","-","t","y","p","e",":">>)>>),
    Cat(<<Bol, Lit(<<"g","r","o","u","p","-","o","n","l","y","-","o","f","-","t","y","p","e",":">>)>>),
    Cat(<<Bol, Lit(<<"g","r","o","u","p","-","e","m","p","t","y",":">>)>>),
    Cat(<<Bol, Lit(<<"g","r","o","u","p","-","d","i","s","a","b","l","e","d",":">>)>>),
    Cat(<<Bol, Lit(<<"g","r","o","u","p","-","e","n","a","b","l","e","d",":">>)>>),
    Cat(<<Bol, Lit(<<"g","r","o","u","p","-","c","h","e","c","k","e","d",":">>)>>),
    Cat(<<Bol, Lit(<<"g","r","o","u","p","-","i","n","d","e","t","e","r","m","i","n","a","t","e",":">>)>>),
    Cat(<<Bol, Lit(<<"g","r","o","u","p","-","d","e","f","a","u","l","t",":">>)>>),
    Cat(<<Bol, Lit(<<"g","r","o","u","p","-","r","e","q","u","i","r","e","d",":">>)>>),
    Cat(<<Bol, Lit(<<"g","r","o","u","p","-","v","a","l","i","d",":">>)>>),
    Cat(<<Bol, Lit(<<"g","r","o","u","p","-","i","n","v","a","l","i","d",":">>)>>),
    Cat(<<Bol, Lit(<<"g","r","o","u","p","-","i","n","-","r","a","n","g","e",":">>)>>),
    Cat(<<Bol, Lit(<<"g","r","o","u","p","-","o","u","t","-","o","f","-","r","a","n","g","e",":">>)>>),
    Cat(<<Bol, Lit(<<"g","r","o","u","p","-","p","l","a","c","e","h","o","l","d","e","r","-","s","h","o","w","n",":">>)>>),
    Cat(<<Bol, Lit(<<"g","r","o","u","p","-","a","u","t","o","f","i","l","l",":">>)>>),
    Cat(<<Bol, Lit(<<"g","r","o","u","p","-","r","e","a","d","-","o","n","l","y",":">>)>>),
    Cat(<<Bol, Lit(<<"g","r","o","u","p","-","h","a","s","-","[">>), StarLazy(NotIn(LineTerminator)), Lit(<<"]",":">>)>>),
    Cat(<<Bol, Lit(<<"g","r","o","u","p","-","h","a","s","-","h","o","v","e","r",":">>)>>),
    Cat(<<Bol, Lit(<<"g","r","o","u","p","-","h","a","s","-","f","o","c","u","s",":">>)>>),
    Cat(<<Bol, Lit(<<"g","r","o","u","p","-","h","a","s","-","a","c","t","i","v","e",":">>)>>),
    Cat(<<Bol, Lit(<<"g","r","o","u","p","-","h","a","s","-","d","i","s","a","b","l","e","d",":">>)>>),
    Cat(<<Bol, Lit(<<"g","r","o","u","p","-","h","a","s","-","c","h","e","c","k","e","d",":">>)>>),
    Cat(<<Bol, Lit(<<"g","r","o","u","p","-","h","a","s","-","s","e","l","e","c","t","e","d",":">>)>>),
    Cat(<<Bol, Lit(<<"g","r","o","u","p","-","h","a","s","-","v","a","l","i","d",":">>)>>),
    Cat(<<Bol, Lit(<<"g","r","o","u","p","-","h","a","s","-","i","n","v","a","l","i","d",":">>)>>),
    Cat(<<Bol, Lit(<<"g","r","o","u","p","-","h","a","s","-","r","e","q","u","i","r","e","d",":">>)>>),
    Cat(<<Bol, Lit(<<"g","r","o","u","p","-","h","a","s","-","o","p","t","i","o","n","a","l",":">>)>>),
    Cat(<<Bol, Lit(<<"g","r","o","u","p","-">>), Plus(In(WordChar \cup {"-"})), Lit(<<"/">>), Plus(In(WordChar \cup {"-"})), Lit(<<":">>)>>),
    Cat(<<Bol, Lit(<<"p","e","e","r","-","h","o","v","e","r",":">>)>>),
    Cat(<<Bol, Lit(<<"p","e","e","r","-","f","o","c","u","s",":">>)>>),
    Cat(<<Bol, Lit(<<"p","e","e","r","-","a","c","t","i","v","e",":">>)>>),
    Cat(<<Bol, Lit(<<"p","e","e","r","-","f","o","c","u","s","-","w","i","t","h","i","n",":">>)>>),
    Cat(<<Bol, Lit(<<"p","e","e","r","-","f","o","c","u","s","-","v","i","s","i","b","l","e",":">>)>>),
    Cat(<<Bol, Lit(<<"p","e","e","r","-","v","i","s","i","t","e","d",":">>)>>),
    Cat(<<Bol, Lit(<<"p","e","e","r","-","t","a","r","g","e","t",":">>)>>),
    Cat(<<Bol, Lit(<<"p","e","e","r","-","f","i","r","s","t",":">>)>>),
    Cat(<<Bol, Lit(<<"p","e","e","r","-","l","a","s","t",":">>)>>),
    Cat(<<Bol, Lit(<<"p","e","e","r","-","o","n","l","y",":">>)>>),
    Cat(<<Bol, Lit(<<"p","e","e","r","-","o","d","d",":">>)>>),
    Cat(<<Bol, Lit(<<"p","e","e","r","-","e","v","e","n",":">>)>>),
    Cat(<<Bol, Lit(<<"p","e","e","r","-","f","i","r","s","t","-","o","f","-","t","y","p","e",":">>)>>),
    Cat(<<Bol, Lit(<<"p","e","e","r","-","l","a","s","t","-","o","f","-","t","y","p","e",":">>)>>),
    Cat(<<Bol, Lit(<<"p","e","e","r","-","o","n","l","y","-","o","f","-","t","y","p","e",":">>)>>),
    Cat(<<Bol, Lit(<<"p","e","e","r","-","e","m","p","t","y",":">>)>>),
    Cat(<<Bol, Lit(<<"p","e","e","r","-","d","i","s","a","b","l","e","d",":">>)>>),
    Cat(<<Bol, Lit(<<"p","e","e","r","-","e","n","a","b","l","e","d",":">>)>>),
    Cat(<<Bol, Lit(<<"p","e","e","r","-","c","h","e","c","k","e","d",":">>)>>),
    Cat(<<Bol, Lit(<<"p","e","e","r","-","i","n","d","e","t","e","r","m","i","n","a","t","e",":">>)>>),
    Cat(<<Bol, Lit(<<"p","e","e","r","-","d","e","f","a","u","l","t",":">>)>>),
    Cat(<<Bol, Lit(<<"p","e","e","r","-","r","e","q","u","i","r","e","d",":">>)>>),
    Cat(<<Bol, Lit(<<"p","e","e","r","-","v","a","l","i","d",":">>)>>),
    Cat(<<Bol, Lit(<<"p","e","e","r","-","i","n","v","a","l","i","d",":">>)>>),
    Cat(<<Bol, Lit(<<"p","e","e","r","-","i","n","-","r","a","n","g","e",":">>)>>),
    Cat(<<Bol, Lit(<<"p","e","e","r","-","o","u","t","-","o","f","-","r","a","n","g","e",":">>)>>),
    Cat(<<Bol, Lit(<<"p","e","e","r","-","p","l","a","c","e","h","o","l","d","e","r","-","s","h","o","w","n",":">>)>>),
    Cat(<<Bol, Lit(<<"p","e","e","r","-","a","u","t","o","f","i","l","l",":">>)>>),
    Cat(<<Bol, Lit(<<"p","e","e","r","-","r","e","a","d","-","o","n","l","y",":">>)>>),
    Cat(<<Bol, Lit(<<"p","e","e","r","-","h","a","s","-","[">>), StarLazy(NotIn(LineTerminator)), Lit(<<"]",":">>)>>),
    Cat(<<Bol, Lit(<<"p","e","e","r","-","h","a","s","-","h","o","v","e","r",":">>)>>),
    Cat(<<Bol, Lit(<<"p","e","e","r","-","h","a","s","-","f","o","c","u","s",":">>)>>),
    Cat(<<Bol, Lit(<<"p","e","e","r","-","h","a","s","-","a","c","t","i","v","e",":">>)>>),
    Cat(<<Bol, Lit(<<"p","e","e","r","-","h","a","s","-","d","i","s","a","b","l","e","d",":">>)>>),
    Cat(<<Bol, Lit(<<"p","e","e","r","-","h","a","s","-","c","h","e","c","k","e","d",":">>)>>),
    Cat(<<Bol, Lit(<<"p","e","e","r","-","h","a","s","-","s","e","l","e","c","t","e","d",":">>)>>),
    Cat(<<Bol, Lit(<<"p","e","e","r","-","h","a","s","-","v","a","l","i","d",":">>)>>),
    Cat(<<Bol, Lit(<<"p","e","e","r","-","h","a","s","-","i","n","v","a","l","i","d",":">>)>>),
    Cat(<<Bol, Lit(<<"p","e","e","r","-","h","a","s","-","r","e","q","u","i","r","e","d",":">>)>>),
    Cat(<<Bol, Lit(<<"p","e","e","r","-","h","a","s","-","o","p","t","i","o","n","a","l",":">>)>>),
    Cat(<<Bol, Lit(<<"d","a","r","k",":">>)>>),
    Cat(<<Bol, Lit(<<"l","i","g","h","t",":">>)>>),
    Cat(<<Bol, Lit(<<"m","o","t","i","o","n","-","s","a","f","e",":">>)>>),
    Cat(<<Bol, Lit(<<"m","o","t","i","o","n","-","r","e","d","u","c","e",":">>)>>),
    Cat(<<Bol, Lit(<<"c","o","n","t","r","a","s","t","-","m","o","r","e",":">>)>>),
    Cat(<<Bol, Lit(<<"c","o","n","t","r","a","s","t","-","l","e","s","s",":">>)>>),
    Cat(<<Bol, Lit(<<"p","o","r","t","r","a","i","t",":">>)>>),
    Cat(<<Bol, Lit(<<"l","a","n","d","s","c","a","p","e",":">>)>>),
    Cat(<<Bol, Lit(<<"p","r","i","n","t",":">>)>>),
    Cat(<<Bol, Lit(<<"s","u","p","p","o","r","t","s","-","[">>), StarLazy(NotIn(LineTerminator)), Lit(<<"]",":">>)>>),
    Cat(<<Bol, Lit(<<"d","a","t","a","-","[">>), StarLazy(NotIn(LineTerminator)), Lit(<<"]",":">>)>>),
    Cat(<<Bol, Lit(<<"a","r","i","a","-","[">>), StarLazy(NotIn(LineTerminator)), Lit(<<"]",":">>)>>),
    Cat(<<Bol, Lit(<<"[","&">>), StarLazy(NotIn(LineTerminator)), Lit(<<"]",":">>)>>)
>>

\* the value null, which no text equals
Null == <<"null">>

\* the text with its important marker left in place
KeepImportant(className) == className

StripImportant(className) ==
    IF StartsWith(className, <<"!">>) THEN Substring(className, 1) ELSE className

\* isTailwindUtility: the token, less a leading "!", matches one of the patterns
isTailwindUtility(className) == Some(tailwindPatterns, StripImportant(className))

\* isOverridableUtility
isOverridableUtility(className) == Some(overridablePatterns, className)

\* no token counts as an arbitrary value
noArbitraryValue(className) == FALSE

\* isArbitraryValue
isArbitraryValue(className) ==
    /\ Test(bracketRegex, className)
    /\ ~Test(selectorVariantRegex, className)
    /\ ~Test(dataVariantRegex, className)
    /\ ~Test(ariaVariantRegex, className)
    /\ ~Test(supportsVariantRegex, className)

\* getBaseClass, the loop: the first prefix of the list that matches at the
\* start and whose removal changes the text is removed, until there is none
PrefixHits(ps, baseClass) ==
    {k \in 1..Len(ps) : /\ Test(ps[k], baseClass)
                        /\ ReplaceFirst(baseClass, ps[k], << >>) # baseClass}

RECURSIVE StripPrefixes(_)
StripFirst(ps, baseClass, k) ==
    IF k = 0 THEN baseClass ELSE StripPrefixes(ReplaceFirst(baseClass, ps[k], << >>))

StripPrefixes(baseClass) ==
    StripFirst(prefixes, baseClass, LeastOr(PrefixHits(prefixes, baseClass), 0))

\* null whenever no prefix was removed, an important marker or not
OrNullUnmarked(baseClass, className) ==
    IF baseClass # className /\ baseClass # StripImportant(className) THEN baseClass ELSE Null

\* getBaseClass: null when nothing was removed
OrNull(baseClass, className) == IF baseClass # className THEN baseClass ELSE Null

getBaseClass(className) == OrNull(StripPrefixes(StripImportant(className)), className)

\* a value that an if statement takes as true: neither null nor the empty text
Truthy(v) == v # Null /\ v # << >>

\* hasThemeOverride, given the theme variables found: the cases of the
\* source in order, the first that applies deciding
ScaleSlot(className, m) ==
    IF Defined(m, 1) THEN ReplaceFirst(Captured(className, m, 1), Lit(<<"-">>), << >>)
    ELSE <<"D","E","F","A","U","L","T">>

ShadowOverride(className, shadowMatch, ftv) ==
    IF shadowMatch # Nil THEN (<<"s","h","a","d","o","w","-">> \o ScaleSlot(className, shadowMatch)) \in ftv
    ELSE FALSE

RadiusOverride(className, radiusMatch, ftv) ==
    IF radiusMatch # Nil THEN (<<"r","a","d","i","u","s","-">> \o ScaleSlot(className, radiusMatch)) \in ftv
    ELSE ShadowOverride(className, Exec(shadowMatchRegex, 1, className, 1), ftv)

SpacingOverride(className, spacingMatch, ftv) ==
    IF spacingMatch # Nil THEN (<<"s","p","a","c","i","n","g","-">> \o Captured(className, spacingMatch, 2)) \in ftv
    ELSE RadiusOverride(className, Exec(radiusMatchRegex, 1, className, 1), ftv)

ColorOverride(className, colorMatch, ftv) ==
    IF colorMatch # Nil
    THEN (<<"c","o","l","o","r","-">> \o Captured(className, colorMatch, 2) \o <<"-">>
            \o Captured(className, colorMatch, 3)) \in ftv
    ELSE SpacingOverride(className, Exec(spacingMatchRegex, 2, className, 1), ftv)

SizeOverride(size, ftv) == (<<"f","o","n","t","-","s","i","z","e","-">> \o size) \in ftv \/ (<<"t","e","x","t","-">> \o size) \in ftv

hasThemeOverride(className, ftv) ==
    IF Test(textSizeRegex, className)
    THEN SizeOverride(ReplaceFirst(className, Lit(<<"t","e","x","t","-">>), << >>), ftv)
    ELSE IF Test(fontWeightRegex, className)
    THEN (<<"f","o","n","t","-","w","e","i","g","h","t","-">> \o ReplaceFirst(className, Lit(<<"f","o","n","t","-">>), << >>)) \in ftv
    ELSE ColorOverride(className, Exec(colorMatchRegex, 3, className, 1), ftv)

\* ------------------------------------------------------------------------
\* Projects: the files on disk and the rule's options
\* ------------------------------------------------------------------------

\* context.getCwd()
projectRoot == <<"/","p">>

PathA == <<"/","p","/","a",".","c","s","s">>
PathB == <<"/","p","/","b",".","c","s","s">>
PathC == <<"/","p","/","s","/","c",".","c","s","s">>
DirS == <<"/","p","/","s">>

\* the texts of a.css, b.css and s/c.css in the projects that exercise the
\* import graph; each declares one class of its own
RootTexts == <<
    <<".","i","n","-","a"," ","{"," ","}","\n">>,
    <<"@","i","m","p","o","r","t"," ","\"",".","/","b",".","c","s","s","\"",";","\n",".","i","n","-","a"," ","{"," ","}","\n">>,
    <<"@","i","m","p","o","r","t"," ","\"",".","/","b",".","c","s","s","\"",";","\n","@","i","m","p","o","r","t"," ","'",".","/","s","/","c",".","c","s","s","'",";","\n",".","i","n","-","a"," ","{"," ","}","\n">>,
    <<"@","i","m","p","o","r","t"," ","\"",".","/","b","\"",";","\n",".","i","n","-","a"," ","{"," ","}","\n">>,
    <<"@","i","m","p","o","r","t"," ","\"",".","/","a",".","c","s","s","\"",";","\n",".","i","n","-","a"," ","{"," ","}","\n">>,
    <<"@","i","m","p","o","r","t"," ","\"",".","/","s","\"",";","\n","@","i","m","p","o","r","t"," ","\"",".","/","b",".","c","s","s","\"","\n",".","i","n","-","a"," ","{"," ","}","\n">>,
    <<"@","i","m","p","o","r","t"," ","\"","t","a","i","l","w","i","n","d","c","s","s","\"",";","\n","@","i","m","p","o","r","t"," ","\"",".","/","m","i","s","s","i","n","g",".","c","s","s","\"",";","\n","@","i","m","p","o","r","t"," ","\"","b",".","c","s","s","\"",";","\n",".","i","n","-","a"," ","{"," ","}","\n">>,
    <<"@","i","m","p","o","r","t"," ","\"",".","/","b",".","c","s","s","\"",";","\n","@","i","m","p","o","r","t"," ","\"",".","/","s","/",".",".","/","b",".","c","s","s","\"",";","\n",".","i","n","-","a"," ","{"," ","}","\n">> >>

SecondTexts == <<
    <<".","i","n","-","b"," ","{"," ","}","\n">>,
    <<"@","i","m","p","o","r","t"," ","\"",".","/","a",".","c","s","s","\"",";","\n",".","i","n","-","b"," ","{"," ","}","\n">>,
    <<"@","i","m","p","o","r","t"," ","\"",".","/","s","/","c",".","c","s","s","\"",";","\n",".","i","n","-","b"," ","{"," ","}","\n">>,
    <<"@","i","m","p","o","r","t"," ","\"",".","/","a",".","c","s","s","\"",";","\n","@","i","m","p","o","r","t"," ","\"",".","/","s","/","c",".","c","s","s","\"",";","\n",".","i","n","-","b"," ","{"," ","}","\n">> >>

ThirdTexts == <<
    <<".","i","n","-","c"," ","{"," ","}","\n">>,
    <<"@","i","m","p","o","r","t"," ","\"",".",".","/","a",".","c","s","s","\"",";","\n",".","i","n","-","c"," ","{"," ","}","\n">>,
    <<"@","i","m","p","o","r","t"," ","\"",".",".","/","b",".","c","s","s","\"",";","\n","@","i","m","p","o","r","t"," ","\"",".","/","c",".","c","s","s","\"",";","\n",".","i","n","-","c"," ","{"," ","}","\n">> >>

GraphProject(i, j, k) ==
    [cssFile |-> <<"a",".","c","s","s">>,
     files |-> (PathA :> RootTexts[i]) @@ (PathB :> SecondTexts[j]) @@ (PathC :> ThirdTexts[k]),
     dirs |-> {projectRoot, DirS}, customClasses |-> << >>]

\* a project whose configured stylesheet does not exist, and one where it
\* names a directory
MissingRoot ==
    [cssFile |-> <<"a",".","c","s","s">>, files |-> (PathB :> SecondTexts[2]), dirs |-> {projectRoot}, customClasses |-> << >>]

DirectoryRoot ==
    [cssFile |-> <<"s">>, files |-> (PathC :> ThirdTexts[1]), dirs |-> {projectRoot, DirS}, customClasses |-> << >>]

GraphProjects ==
    {GraphProject(i, j, k) : i \in 1..Len(RootTexts), j \in 1..Len(SecondTexts),
                             k \in 1..Len(ThirdTexts)}
    \cup {MissingRoot, DirectoryRoot}

\* the projects that exercise the vocabulary
OneFile(text) == [cssFile |-> <<"a",".","c","s","s">>, files |-> (PathA :> text), dirs |-> {projectRoot}, customClasses |-> << >>]
TwoFiles(a, b) ==
    [cssFile |-> <<"a",".","c","s","s">>, files |-> (PathA :> a) @@ (PathB :> b), dirs |-> {projectRoot}, customClasses |-> << >>]

BadgeText == <<"@","i","m","p","o","r","t"," ","\"","t","a","i","l","w","i","n","d","c","s","s","\"",";","\n",".","c","u","s","t","o","m","-","b","a","d","g","e"," ","{"," ","c","o","l","o","r",":"," ","r","e","d",";"," ","}","\n">>
PrimaryText == <<"@","t","h","e","m","e"," ","{","\n"," "," ","-","-","c","o","l","o","r","-","p","r","i","m","a","r","y",":"," ","#","1","2","3",";","\n","}","\n">>
ThemeButton == <<"@","t","h","e","m","e"," ","{","\n"," "," ","-","-","t","e","x","t","-","b","u","t","t","o","n",":"," ","1","r","e","m",";","\n","}","\n">>
RuleButton == <<".","t","e","x","t","-","b","u","t","t","o","n"," ","{"," ","f","o","n","t","-","s","i","z","e",":"," ","2","r","e","m",";"," ","}","\n">>
ImportSecond == <<"@","i","m","p","o","r","t"," ","\"",".","/","b",".","c","s","s","\"",";","\n">>
EscapedText == <<".","s","m","\\",":","b","g","-","p","r","i","m","a","r","y","\\","/","5","0"," ","{"," ","}","\n">>
NineEscapes == <<".","a","\\",":","b"," ","{"," ","}","\n",".","c","\\","/","d"," ","{"," ","}","\n",".","e","\\",".","f"," ","{"," ","}","\n",".","g","\\","[","h","\\","]"," ","{"," ","}","\n",".","i","\\","(","j","\\",")"," ","{"," ","}","\n",".","k","\\","-","l"," ","{"," ","}","\n",".","m","\\","\\","n"," ","{"," ","}","\n">>
PlainRule == <<".","c","u","s","t","o","m","-","b","a","d","g","e"," ","{"," ","c","o","l","o","r",":"," ","r","e","d",";"," ","}","\n">>
FrameworkOnly == <<"@","i","m","p","o","r","t"," ","\"","t","a","i","l","w","i","n","d","c","s","s","\"",";","\n">>
ScaleTheme == <<"@","i","m","p","o","r","t"," ","\"","t","a","i","l","w","i","n","d","c","s","s","\"",";","\n","@","t","h","e","m","e"," ","{","\n"," "," ","-","-","c","o","l","o","r","-","r","e","d","-","5","0","0",":"," ","#","f","0","0",";","\n"," "," ","-","-","s","p","a","c","i","n","g","-","4",":"," ","1","r","e","m",";","\n"," "," ","-","-","f","o","n","t","-","s","i","z","e","-","l","g",":"," ","2","r","e","m",";","\n","}","\n">>

VocabularyProjects == {
    OneFile(<<"/","*"," ","e","m","p","t","y"," ","*","/","\n">>),
    OneFile(BadgeText),
    OneFile(PrimaryText),
    OneFile(ThemeButton \o RuleButton),
    OneFile(RuleButton \o ThemeButton),
    TwoFiles(ImportSecond \o ThemeButton, RuleButton),
    TwoFiles(ImportSecond \o RuleButton, ThemeButton),
    OneFile(EscapedText),
    OneFile(NineEscapes),
    OneFile(PlainRule),
    OneFile(FrameworkOnly),
    OneFile(ScaleTheme),
    [cssFile |-> <<"a",".","c","s","s">>, files |-> << >>, dirs |-> {projectRoot}, customClasses |-> << >>] }

\* projects whose options list custom classes, as the README describes
Listing(text, listed) ==
    [cssFile |-> <<"a",".","c","s","s">>, files |-> (PathA :> text), dirs |-> {projectRoot},
     customClasses |-> listed]

OptionProjects ==
    {Listing(PlainRule, <<<<"u","n","k","n","o","w","n","-","x","y","z">>>>), Listing(FrameworkOnly, <<<<"u","n","k","n","o","w","n","-","x","y","z">>, <<"i","n","-","c">>>>)}

\* a project whose second stylesheet redefines the default radius, and the
\* same project with that stylesheet missing, and with a directory in its place
FrameworkSecond == <<"@","i","m","p","o","r","t"," ","\"","t","a","i","l","w","i","n","d","c","s","s","\"",";","\n","@","i","m","p","o","r","t"," ","\"",".","/","b",".","c","s","s","\"",";","\n">>
RadiusTheme == <<"@","t","h","e","m","e"," ","{","\n"," "," ","-","-","r","a","d","i","u","s","-","D","E","F","A","U","L","T",":"," ","4","p","x",";","\n","}","\n">>

Missing(p, path) ==
    [p EXCEPT !.files = [f \in DOMAIN p.files \ {path} |-> p.files[f]]]

Unreadable(p, path) ==
    [p EXCEPT !.files = [f \in DOMAIN p.files \ {path} |-> p.files[f]],
              !.dirs = @ \cup {path}]

FailureProjects ==
    {TwoFiles(FrameworkSecond, RadiusTheme),
     Missing(TwoFiles(FrameworkSecond, RadiusTheme), PathB),
     Unreadable(TwoFiles(FrameworkSecond, RadiusTheme), PathB)}

\* projects whose theme declares a variable of every family, of no family,
\* and of a name close to one; the second declares one utility itself
FamiliesTheme ==
    <<"@","t","h","e","m","e"," ","{","-","-","c","o","l","o","r","-","x",":","1",";","-","-","s","p","a","c","i","n","g","-","x",":","1",";","-","-","a","n","i","m","a","t","e","-","x",":","1",";","-","-","s","h","a","d","o","w","-","x",":","1",";","-","-","r","a","d","i","u","s","-","x",":","1",";","-","-","t","e","x","t","-","x",":","1",";","-","-","f","o","n","t","-","s","i","z","e","-","y",":","1",";","-","-","f","o","n","t","-","f","a","m","i","l","y","-","f",":","1",";","-","-","f","o","n","t","-","w","e","i","g","h","t","-","w",":","1",";","-","-","s","i","z","e","-","x",":","1",";","-","-","c","o","l","o","r","s","-","x",":","1",";","}","\n">>
RuleBgX == <<".","b","g","-","x"," ","{"," ","}","\n">>

\* a project that imports the framework and redefines default slots of the
\* radius, shadow and font weight scales, and the same with a rule for rounded
DefaultsTheme ==
    <<"@","i","m","p","o","r","t"," ","\"","t","a","i","l","w","i","n","d","c","s","s","\"",";","\n","@","t","h","e","m","e"," ","{","-","-","r","a","d","i","u","s","-","D","E","F","A","U","L","T",":","1",";","-","-","s","h","a","d","o","w","-","D","E","F","A","U","L","T",":","1",";","-","-","r","a","d","i","u","s","-","s","m",":","1",";","-","-","s","h","a","d","o","w","-","s","m",":","1",";","-","-","f","o","n","t","-","w","e","i","g","h","t","-","b","o","l","d",":","1",";","}","\n">>
RuleRounded == <<".","r","o","u","n","d","e","d"," ","{"," ","}","\n">>

ThemeProjects ==
    {OneFile(FamiliesTheme), OneFile(RuleBgX \o FamiliesTheme),
     OneFile(DefaultsTheme), OneFile(RuleRounded \o DefaultsTheme)}

\* two projects that differ in the order of the imports of a.css only; b.css
\* holds a rule, s/c.css imports the framework
BeforeThird == <<"@","i","m","p","o","r","t"," ","\"",".","/","b",".","c","s","s","\"",";","\n","@","i","m","p","o","r","t"," ","\"",".","/","s","/","c",".","c","s","s","\"",";","\n">>
ThirdBefore == <<"@","i","m","p","o","r","t"," ","\"",".","/","s","/","c",".","c","s","s","\"",";","\n","@","i","m","p","o","r","t"," ","\"",".","/","b",".","c","s","s","\"",";","\n">>

ThreeFiles(a, b, c) ==
    [cssFile |-> <<"a",".","c","s","s">>, files |-> (PathA :> a) @@ (PathB :> b) @@ (PathC :> c),
     dirs |-> {projectRoot, DirS}, customClasses |-> << >>]

OrderProjects ==
    {ThreeFiles(BeforeThird, RuleButton, BadgeText), ThreeFiles(ThirdBefore, RuleButton, BadgeText)}

Projects ==
    GraphProjects \cup VocabularyProjects \cup OptionProjects \cup FailureProjects
    \cup ThemeProjects \cup OrderProjects

\* the text of every stylesheet of every project
Contents == UNION {Range(p.files) : p \in Projects}

\* ------------------------------------------------------------------------
\* Sources: the attributes and calls the linted file holds
\* ------------------------------------------------------------------------

\* the longest chain of variant prefixes put in front of a utility
MaxChain == 2

Variants == {<<"h","o","v","e","r",":">>, <<"s","m",":">>, <<"d","a","t","a","-","[","x","]",":">>}

Utilities == {
    <<"f","l","e","x">>, <<"u","n","k","n","o","w","n","-","x","y","z">>, <<"c","u","s","t","o","m","-","b","a","d","g","e">>, <<"b","g","-","p","r","i","m","a","r","y">>, <<"b","g","-","s","e","c","o","n","d","a","r","y">>,
    <<"b","g","-","r","e","d","-","5","0","0">>, <<"b","g","-","b","l","a","c","k">>, <<"t","e","x","t","-","b","u","t","t","o","n">>, <<"t","e","x","t","-","l","g">>, <<"p","-","4">>, <<"w","-","[","1","0","p","x","]">>,
    <<"b","g","-","p","r","i","m","a","r","y","/","5","0">>, <<"r","o","u","n","d","e","d">>, <<"i","n","-","a">> }

RECURSIVE Chains(_)
Chains(n) ==
    IF n = 0 THEN {<< >>}
    ELSE LET shorter == Chains(n - 1)
         IN  shorter \cup {v \o c : v \in Variants, c \in shorter}

\* tokens outside the scheme of chains: the unescaped selectors, bracketed
\* variants and bracketed values
OtherTokens == {
    <<"a",":","b">>, <<"c","/","d">>, <<"e",".","f">>, <<"g","[","h","]">>, <<"i","(","j",")">>, <<"k","-","l">>, <<"m","\\","n">>,
    <<"[","&",">","p","]",":","f","l","e","x">>, <<"a","r","i","a","-","[","x","]",":","f","l","e","x">>, <<"s","u","p","p","o","r","t","s","-","[","x","]",":","f","l","e","x">>, <<"[","&",">","p","]",":","w","-","[","1","0","p","x","]">>,
    <<"[","&",">","p","]",":","u","n","k","n","o","w","n","-","x","y","z">>, <<"d","a","t","a","-","[","x","]",":","[","y","]">>, <<"[","c","o","l","o","r",":","r","e","d","]">>, <<"[","]">>, <<"i","n","-","b">>, <<"i","n","-","c">>,
    <<"s","h","a","d","o","w">>, <<"h","o","v","e","r",":","s","h","a","d","o","w">>, <<"s","h","a","d","o","w","-","s","m">>, <<"r","o","u","n","d","e","d","-","s","m">>, <<"f","o","n","t","-","b","o","l","d">>,
    <<"m","d",":","u","n","k","n","o","w","n","-","x","y","z">>, <<"d","a","r","k",":","u","n","k","n","o","w","n","-","x","y","z">>, <<"g","r","o","u","p","-","h","o","v","e","r",":","u","n","k","n","o","w","n","-","x","y","z">>, <<"p","e","e","r","-","f","o","c","u","s",":","u","n","k","n","o","w","n","-","x","y","z">>,
    <<"m","o","t","i","o","n","-","s","a","f","e",":","u","n","k","n","o","w","n","-","x","y","z">>, <<"g","r","o","u","p","-","h","o","v","e","r","/","i","t","e","m",":","u","n","k","n","o","w","n","-","x","y","z">>, <<"g","r","o","u","p","-","h","o","v","e","r","/","i","t","e","m",":","w","-","[","1","0","p","x","]">> }

Tokens ==
    {i \o c \o u : i \in {<< >>, <<"!">>}, c \in Chains(MaxChain), u \in Utilities}
    \cup OtherTokens

\* the nodes of the syntax tree that carry class names, and those that do not
NoValue == [type |-> "null"]
StringLiteral(text) == [type |-> "Literal", typeof |-> "string", value |-> text]
NumberLiteral == [type |-> "Literal", typeof |-> "number", value |-> << >>]
TemplateLiteral(quasis, n) == [type |-> "TemplateLiteral", quasis |-> quasis, expressions |-> n]
Identifier(name) == [type |-> "Identifier", name |-> name]
Member(name) == [type |-> "MemberExpression", property |-> [name |-> name]]

JSXAttr(name, value) == [type |-> "JSXAttribute", name |-> [name |-> name], value |-> value]
Call(callee, arguments) == [type |-> "CallExpression", callee |-> callee, arguments |-> arguments]

\* a file with one class attribute holding one token
TokenSources == {<<JSXAttr("className", StringLiteral(t))>> : t \in Tokens}

\* files with several tokens, several sites, and sites the rule passes over
OtherSources == {
    <<JSXAttr("className", StringLiteral(<<"f","l","e","x"," ","c","u","s","t","o","m","-","b","a","d","g","e"," ","u","n","k","n","o","w","n","-","x","y","z">>))>>,
    <<JSXAttr("className", StringLiteral(<<" ","u","n","k","n","o","w","n","-","x","y","z"," "," ","u","n","k","n","o","w","n","-","x","y","z","\n","f","l","e","x","\t","u","n","k","n","o","w","n","-","x","y","z"," ">>))>>,
    <<JSXAttr("className", StringLiteral(<<"u","n","k","n","o","w","n","-","x","y","z"," ","i","n","-","a">>)),
      Call(Identifier("cn"), <<StringLiteral(<<"u","n","k","n","o","w","n","-","x","y","z">>),
                               TemplateLiteral(<<<<"p","-","4"," ","n","o","p","e","-">>, <<"i","n","-","b">>>>, 1),
                               Identifier("x")>>)>>,
    <<Call(Identifier("foo"), <<StringLiteral(<<"u","n","k","n","o","w","n","-","x","y","z">>)>>),
      JSXAttr("id", StringLiteral(<<"u","n","k","n","o","w","n","-","x","y","z">>)),
      JSXAttr("className", NoValue),
      Call(Member("clsx"), <<NumberLiteral, StringLiteral(<<"i","n","-","c"," ","u","n","k","n","o","w","n","-","x","y","z">>)>>)>>,
    <<Call(Identifier("tw"), << >>), Call(Member("map"), <<StringLiteral(<<"f","l","e","x">>)>>)>>,
    <<Call(Identifier("cva"), <<Identifier("x")>>), JSXAttr("className", StringLiteral(<< >>))>> }

Sources == TokenSources \cup OtherSources

\* the files linted in a project: the projects that exercise the import graph
\* or the options are linted with the files of several sites only
SourcesOf(p) ==
    IF p \in GraphProjects \cup OptionProjects \cup FailureProjects \cup ThemeProjects
                            \cup OrderProjects
    THEN OtherSources ELSE Sources

\* the site that may follow the sites traversed so far
Continuations(p, done) ==
    IF done = << >> THEN {s[1] : s \in SourcesOf(p)}
    ELSE {s[Len(done) + 1] :
            s \in {x \in OtherSources : Len(x) > Len(done) /\ SubSeq(x, 1, Len(done)) = done}}

\* ------------------------------------------------------------------------
\* The classification of the tokens of the sources, evaluated once per token
\* ------------------------------------------------------------------------

\* the segments of a template put end to end with nothing between them
extractFused(node) ==
    IF node.type = "Literal" /\ node.typeof = "string"
    THEN SplitNonEmpty(node.value, whitespaceRegex)
    ELSE IF node.type = "TemplateLiteral"
    THEN SplitNonEmpty(Join(node.quasis), whitespaceRegex)
    ELSE << >>

\* extractClassNames
extractClassNames(node) ==
    IF node.type = "Literal" /\ node.typeof = "string"
    THEN SplitNonEmpty(node.value, whitespaceRegex)
    ELSE IF node.type = "TemplateLiteral"
    THEN SplitNonEmpty(Join([i \in 1..Len(node.quasis) |->
                               node.quasis[i]
                               \o (IF i - 1 < node.expressions THEN <<" ">> ELSE << >>)]),
                       whitespaceRegex)
    ELSE << >>

\* the tokens of the sources, with the forms isValidClass derives from them
NodesOf(site) == IF site.type = "JSXAttribute" THEN <<site.value>> ELSE site.arguments
Nodes == UNION {Range(NodesOf(site)) : site \in UNION {Range(src) : src \in Sources}}
SourceTokens == UNION {Range(extractClassNames(n)) : n \in Nodes}
WithClean(S) == S \cup {StripImportant(c) : c \in S}
WithBases(S) == S \cup ({getBaseClass(c) : c \in S} \ {Null})
ClassNames == WithClean(WithBases(WithClean(SourceTokens)))

\* a function with each of its values evaluated
Tabulated(f) == f @@ << >>

TailwindUtilities == Tabulated([c \in ClassNames |-> isTailwindUtility(c)])
OverridableUtilities == Tabulated([c \in ClassNames |-> isOverridableUtility(c)])
ArbitraryValues == Tabulated([c \in ClassNames |-> isArbitraryValue(c)])
BaseClasses == Tabulated([c \in ClassNames |-> getBaseClass(c)])

ClassNamesIn == Tabulated([node \in Nodes |-> extractClassNames(node)])

TailwindUtility(c) == TailwindUtilities[c]
OverridableUtility(c) == OverridableUtilities[c]
ArbitraryValue(c) == ArbitraryValues[c]
BaseClass(c) == BaseClasses[c]

\* ------------------------------------------------------------------------

\* The state of one run of the rule over one file
\* ------------------------------------------------------------------------

VARIABLES
    project,               \* the files on disk and the options but allowArbitraryValues
    allowArbitraryValues,  \* the allowArbitraryValues option
    traversed,             \* the sites the visitors have handled, in order
    pc,                    \* "ready", or "parsing" inside parseCSSImports
    cssQueue,              \* parseCSSImports: the paths waiting
    visited,               \* parseCSSImports: the paths taken from the queue
    validClasses,
    customClasses,
    hasTailwindImport,
    cssLoaded,
    foundThemeVariables,
    reports,               \* the findings passed to context.report, in order
    parsedLog              \* the stylesheets read and scanned, in order

vars == <<project, allowArbitraryValues, traversed, pc, cssQueue, visited, validClasses,
          customClasses, hasTailwindImport, cssLoaded, foundThemeVariables, reports,
          parsedLog>>

\* the most stylesheets one run reads
MaxReads == 4

\* fs.existsSync and fs.readFileSync, which throws on a directory
existsSync(p) == p \in DOMAIN project.files \/ p \in project.dirs
Readable(p) == p \in DOMAIN project.files
readFileSync(p) == project.files[p]

Init ==
    /\ project \in Projects
    /\ allowArbitraryValues \in BOOLEAN
    /\ traversed = << >>
    /\ pc = "ready"
    /\ cssQueue = << >>
    /\ visited = {}
    /\ validClasses = {}
    /\ customClasses = {}
    /\ hasTailwindImport = FALSE
    /\ cssLoaded = FALSE
    /\ foundThemeVariables = {}
    /\ reports = << >>
    /\ parsedLog = << >>

\* ------------------------------------------------------------------------
\* Building the index
\* ------------------------------------------------------------------------

possibleExtensions == <<<<".","c","s","s">>, <<".","s","c","s","s">>, <<".","s","a","s","s">>, <<".","l","e","s","s">>>>

\* what the scans of parseCSSImports find in each stylesheet of the projects,
\* evaluated once per text
Detections ==
    Tabulated([cssContent \in Contents |->
                 Tabulated([flag \in BOOLEAN |-> detectTailwindImport(cssContent, flag)])])
Extractions == Tabulated([cssContent \in Contents |-> extractCustomClasses(cssContent)])
ExplicitClasses == Tabulated([cssContent \in Contents |-> extractExplicitClasses(cssContent)])
ImportPaths == Tabulated([cssContent \in Contents |-> Captures(importRegex, 1, cssContent, 1)])

\* queueCSSImports: what each import of each stylesheet resolves to, with its
\* extension, evaluated once per stylesheet and import
Resolve(currentPath, importPath) ==
    LET fullPath == resolve(dirname(currentPath), importPath)
    IN  [fullPath |-> fullPath, extname |-> extname(fullPath)]

Resolutions ==
    Tabulated([currentPath \in UNION {DOMAIN p.files : p \in Projects} |->
       Tabulated([importPath \in UNION {Range(ImportPaths[cssContent]) : cssContent \in Contents} |->
          Resolve(currentPath, importPath)])])

\* queueCSSImports: the path an import resolves to, the extensions tried in
\* order when it has none
WithExtension(r, found) ==
    IF r.extname = << >> /\ found # {}
    THEN r.fullPath \o possibleExtensions[Least(found)]
    ELSE r.fullPath

Probe(r) ==
    WithExtension(r, {k \in 1..Len(possibleExtensions) :
                        existsSync(r.fullPath \o possibleExtensions[k])})

\* the path as written, no extension tried
ImportTargetAsWritten(importPath, currentPath) == Resolutions[currentPath][importPath].fullPath

ImportTarget(importPath, currentPath) == Probe(Resolutions[currentPath][importPath])

RECURSIVE QueueEach(_, _, _, _, _)
QueueEach(importPaths, k, currentPath, queue, seen) ==
    IF k > Len(importPaths) THEN queue
    ELSE LET importPath == importPaths[k]
             fullPath == ImportTarget(importPath, currentPath)
         IN  QueueEach(importPaths, k + 1, currentPath,
                 IF importPath = <<"t","a","i","l","w","i","n","d","c","s","s">> \/ StartsWith(importPath, <<"t","a","i","l","w","i","n","d","c","s","s","/">>)
                 THEN queue
                 ELSE IF (StartsWith(importPath, <<".","/">>) \/ StartsWith(importPath, <<".",".","/">>))
                         /\ existsSync(fullPath) /\ fullPath \notin seen
                 THEN Append(queue, fullPath)
                 ELSE queue,
                 seen)

\* queueCSSImports: the queue after the imports of one stylesheet
queueCSSImports(cssContent, currentPath, queue, seen) ==
    QueueEach(ImportPaths[cssContent], 1, currentPath, queue, seen)

\* a loop that forgets the paths it has taken
visitedKeep(seen, currentPath) == seen

\* visited.add(currentPath)
visitedAdd(seen, currentPath) == seen \cup {currentPath}

\* loadAllCSSClasses up to the loop of parseCSSImports: the configured
\* stylesheet is queued if it exists
loadAllCSSClasses ==
    LET cssPath == resolve(projectRoot, project.cssFile)
    IN  /\ pc' = "parsing"
        /\ cssQueue' = IF existsSync(cssPath) THEN <<cssPath>> ELSE << >>
        /\ visited' = {}
        /\ UNCHANGED <<project, allowArbitraryValues, traversed, validClasses, customClasses,
                       hasTailwindImport, cssLoaded, foundThemeVariables, reports, parsedLog>>

\* parseCSSImports: one turn of the loop
parseCSSImports ==
    /\ pc = "parsing"
    /\ cssQueue # << >>
    /\ Len(parsedLog) < MaxReads
    /\ LET currentPath == Head(cssQueue)
           rest == Tail(cssQueue)
       IN  IF currentPath \in visited
           THEN /\ cssQueue' = rest
                /\ UNCHANGED <<visited, customClasses, hasTailwindImport,
                               foundThemeVariables, parsedLog>>
           ELSE /\ visited' = visitedAdd(visited, currentPath)
                /\ IF Readable(currentPath)
                   THEN LET cssContent == readFileSync(currentPath)
                            x == Extractions[cssContent]
                        IN  /\ hasTailwindImport' =
                                   Detections[cssContent][hasTailwindImport]
                            /\ customClasses' = customClasses \cup x.customClasses
                            /\ foundThemeVariables' =
                                   foundThemeVariables \cup x.foundThemeVariables
                            /\ cssQueue' = queueCSSImports(cssContent, currentPath, rest,
                                                           visited')
                            /\ parsedLog' = Append(parsedLog, currentPath)
                   ELSE /\ cssQueue' = rest
                        /\ UNCHANGED <<customClasses, hasTailwindImport,
                                       foundThemeVariables, parsedLog>>
    /\ UNCHANGED <<project, allowArbitraryValues, traversed, pc, validClasses, cssLoaded,
                   reports>>

\* a return that moves the custom classes instead of copying them
LoadReturnMoved ==
    /\ pc = "parsing"
    /\ cssQueue = << >>
    /\ validClasses' = validClasses \cup customClasses
    /\ customClasses' = {}
    /\ cssLoaded' = TRUE
    /\ pc' = "ready"
    /\ UNCHANGED <<project, allowArbitraryValues, traversed, cssQueue, visited,
                   hasTailwindImport, foundThemeVariables, reports, parsedLog>>

\* a return that leaves the index unmarked
LoadReturnUnmarked ==
    /\ pc = "parsing"
    /\ cssQueue = << >>
    /\ validClasses' = validClasses \cup customClasses
    /\ pc' = "ready"
    /\ UNCHANGED <<project, allowArbitraryValues, traversed, cssQueue, visited, customClasses,
                   hasTailwindImport, cssLoaded, foundThemeVariables, reports, parsedLog>>

\* loadAllCSSClasses after parseCSSImports returned: the custom classes
\* become valid and the index is marked built
LoadReturn ==
    /\ pc = "parsing"
    /\ cssQueue = << >>
    /\ validClasses' = validClasses \cup customClasses
    /\ cssLoaded' = TRUE
    /\ pc' = "ready"
    /\ UNCHANGED <<project, allowArbitraryValues, traversed, cssQueue, visited, customClasses,
                   hasTailwindImport, foundThemeVariables, reports, parsedLog>>

\* ------------------------------------------------------------------------
\* Validation
\* ------------------------------------------------------------------------

\* the classifier consulted whether or not the framework was detected
ViaBaseClassUnflagged(className, cleanClassName, baseClass) ==
    LET cleanBaseClass == StripImportant(baseClass)
    IN  IF Truthy(baseClass) /\ cleanBaseClass \in validClasses THEN TRUE
        ELSE IF Truthy(baseClass) /\ TailwindUtility(cleanBaseClass)
        THEN \/ ~OverridableUtility(cleanBaseClass)
             \/ ~hasThemeOverride(cleanBaseClass, foundThemeVariables)
        ELSE IF TailwindUtility(className)
        THEN \/ ~OverridableUtility(cleanClassName)
             \/ ~hasThemeOverride(cleanClassName, foundThemeVariables)
        ELSE FALSE

\* a fallback that examines the base alone when the token has one
ViaBaseClassOnly(className, cleanClassName, baseClass) ==
    LET cleanBaseClass == StripImportant(baseClass)
    IN  IF Truthy(baseClass) /\ cleanBaseClass \in validClasses THEN TRUE
        ELSE IF Truthy(baseClass)
        THEN /\ hasTailwindImport
             /\ TailwindUtility(cleanBaseClass)
             /\ \/ ~OverridableUtility(cleanBaseClass)
                \/ ~hasThemeOverride(cleanBaseClass, foundThemeVariables)
        ELSE IF hasTailwindImport /\ TailwindUtility(className)
        THEN \/ ~OverridableUtility(cleanClassName)
             \/ ~hasThemeOverride(cleanClassName, foundThemeVariables)
        ELSE FALSE

\* isValidClass, from the lookup of the base class on
ViaBaseClass(className, cleanClassName, baseClass) ==
    LET cleanBaseClass == StripImportant(baseClass)
    IN  IF Truthy(baseClass) /\ cleanBaseClass \in validClasses THEN TRUE
        ELSE IF Truthy(baseClass) /\ hasTailwindImport /\ TailwindUtility(cleanBaseClass)
        THEN \/ ~OverridableUtility(cleanBaseClass)
             \/ ~hasThemeOverride(cleanBaseClass, foundThemeVariables)
        ELSE IF hasTailwindImport /\ TailwindUtility(className)
        THEN \/ ~OverridableUtility(cleanClassName)
             \/ ~hasThemeOverride(cleanClassName, foundThemeVariables)
        ELSE FALSE

\* a validation that lets arbitrary values pass whatever the option says
isValidClassAnyOption(className) ==
    LET cleanClassName == StripImportant(className)
    IN  IF ArbitraryValue(cleanClassName) THEN TRUE
        ELSE IF cleanClassName \in validClasses THEN TRUE
        ELSE ViaBaseClass(className, cleanClassName, BaseClass(className))

\* isValidClass
isValidClass(className) ==
    LET cleanClassName == StripImportant(className)
    IN  IF ArbitraryValue(cleanClassName) /\ allowArbitraryValues THEN TRUE
        ELSE IF cleanClassName \in validClasses THEN TRUE
        ELSE ViaBaseClass(className, cleanClassName, BaseClass(className))

\* one finding for each distinct token that is not valid
ReportedOnce(site, arg, invalid) ==
    LET first == SelectSeq([j \in 1..Len(invalid) |-> j],
                           LAMBDA j : \A i \in 1..(j - 1) : invalid[i] # invalid[j])
    IN  [j \in 1..Len(first) |->
           [site |-> site, arg |-> arg, className |-> invalid[first[j]]]]

\* validateClasses once the index is built: a finding for every token of the
\* node that is not valid, in the order of the tokens
Reported(site, arg, invalid) ==
    [j \in 1..Len(invalid) |-> [site |-> site, arg |-> arg, className |-> invalid[j]]]

Findings(site, arg, node) ==
    Reported(site, arg, SelectSeq(ClassNamesIn[node], LAMBDA c : ~isValidClass(c)))

\* validateClasses for the nodes of one site: the index is built first if it
\* is not, and the site is handled when it is
validateClasses(site, nodes) ==
    IF ~cssLoaded
    THEN loadAllCSSClasses
    ELSE /\ reports' = reports \o Join([a \in 1..Len(nodes) |->
                                          Findings(Len(traversed) + 1, a, nodes[a])])
         /\ traversed' = Append(traversed, site)
         /\ UNCHANGED <<project, allowArbitraryValues, pc, cssQueue, visited, validClasses,
                        customClasses, hasTailwindImport, cssLoaded, foundThemeVariables,
                        parsedLog>>

\* a site the visitor passes over
Pass(site) ==
    /\ traversed' = Append(traversed, site)
    /\ UNCHANGED <<project, allowArbitraryValues, pc, cssQueue, visited, validClasses,
                   customClasses, hasTailwindImport, cssLoaded, foundThemeVariables, reports,
                   parsedLog>>

\* the JSXAttribute visitor
JSXAttribute(node) ==
    /\ pc = "ready"
    /\ node.type = "JSXAttribute"
    /\ IF node.name.name = "className" /\ node.value # NoValue
       THEN validateClasses(node, <<node.value>>)
       ELSE Pass(node)

fnNames == {"cn", "clsx", "cva", "tw"}

\* the CallExpression visitor
CallExpression(node) ==
    /\ pc = "ready"
    /\ node.type = "CallExpression"
    /\ LET isCnCall ==
               \/ node.callee.type = "Identifier" /\ node.callee.name \in fnNames
               \/ node.callee.type = "MemberExpression" /\ node.callee.property.name \in fnNames
       IN  IF isCnCall /\ node.arguments # << >>
           THEN validateClasses(node, node.arguments)
           ELSE Pass(node)

Next ==
    \/ \E node \in Continuations(project, traversed) : JSXAttribute(node)
    \/ \E node \in Continuations(project, traversed) : CallExpression(node)
    \/ parseCSSImports
    \/ LoadReturn

Spec == Init /\ [][Next]_vars

\* parseCSSImports and loadAllCSSClasses run to their end once called: a turn
\* of the loop that can be taken is taken, and so is the return
LiveSpec == Spec /\ WF_vars(parseCSSImports) /\ WF_vars(LoadReturn)

\* ------------------------------------------------------------------------
\* Properties
\* ------------------------------------------------------------------------

\* C1: whatever the import edges between the stylesheets, cycles and
\* self-imports included, parseCSSImports once started reaches an empty queue
\* and returns: the index is marked built
Terminates == (pc = "parsing") ~> (pc = "ready" /\ cssQueue = << >> /\ cssLoaded)

\* a.css and b.css import each other, and both have been read once
CycleLoaded ==
    /\ project = GraphProject(2, 2, 1)
    /\ cssLoaded
    /\ parsedLog = <<PathA, PathB>>

\* the relative imports of a stylesheet that name a file there is
ImportedFrom(path) ==
    {ImportTarget(importPath, path) :
       importPath \in {x \in Range(ImportPaths[readFileSync(path)]) :
                         StartsWith(x, <<".","/">>) \/ StartsWith(x, <<".",".","/">>)}}
    \cap DOMAIN project.files

RECURSIVE Closure(_)
Closure(S) ==
    LET T == S \cup UNION {ImportedFrom(path) : path \in S}
    IN  IF T = S THEN S ELSE Closure(T)

\* the stylesheets reachable from the configured one
Reachable ==
    LET cssPath == resolve(projectRoot, project.cssFile)
    IN  IF Readable(cssPath) THEN Closure({cssPath}) ELSE {}

\* C2: when the index has been built, every stylesheet reachable from the
\* configured one through relative imports of existing files has been parsed
\* exactly once, however often it was queued, and no other file has: the
\* framework flag and the custom classes are those of the reachable files
ParsedOnce ==
    (cssLoaded /\ traversed = << >>) =>
        /\ Range(parsedLog) = Reachable
        /\ \A i, j \in 1..Len(parsedLog) : parsedLog[i] = parsedLog[j] => i = j
        /\ customClasses =
               UNION {Extractions[readFileSync(path)].customClasses : path \in Reachable}
        /\ hasTailwindImport =
               (\E path \in Reachable : Detections[readFileSync(path)][FALSE])

\* s/c.css is imported by a.css and by b.css, was in the queue twice, and has
\* been read once
DiamondLoaded ==
    /\ project = GraphProject(3, 3, 1)
    /\ cssLoaded
    /\ parsedLog = <<PathA, PathB, PathC>>

\* the tokens a site hands to validateClasses, argument after argument; a
\* site the visitors pass over hands none
Validated(site) ==
    \/ /\ site.type = "JSXAttribute"
       /\ site.name.name = "className"
       /\ site.value # NoValue
    \/ /\ site.type = "CallExpression"
       /\ site.arguments # << >>
       /\ \/ site.callee.type = "Identifier" /\ site.callee.name \in fnNames
          \/ site.callee.type = "MemberExpression" /\ site.callee.property.name \in fnNames

SiteTokens(site) ==
    IF Validated(site)
    THEN Join([a \in 1..Len(NodesOf(site)) |-> ClassNamesIn[NodesOf(site)[a]]])
    ELSE << >>

\* the class names of the findings reported for the k-th site, in order
FindingsAt(k) ==
    LET found == SelectSeq(reports, LAMBDA r : r.site = k)
    IN  [j \in 1..Len(found) |-> found[j].className]

\* a site holding one class attribute with this text
ClassAttribute(text) == JSXAttr("className", StringLiteral(text))

\* a text with a bracketed segment that is not empty
Bracketed(s) ==
    \E i, j \in 1..Len(s) : s[i] = "[" /\ s[j] = "]" /\ j > i + 1

\* a text that begins with a bracketed variant
BracketVariant(s) ==
    \E p \in {<<"[","&">>, <<"d","a","t","a","-","[">>, <<"a","r","i","a","-","[">>, <<"s","u","p","p","o","r","t","s","-","[">>} :
        /\ StartsWith(s, p)
        /\ \E j \in (Len(p) + 1)..(Len(s) - 1) : s[j] = "]" /\ s[j + 1] = ":"

ArbitraryTokens ==
    {t \in Tokens : Bracketed(StripImportant(t)) /\ ~BracketVariant(StripImportant(t))}

\* C3: with allowArbitraryValues set, a token that holds a bracketed segment
\* with content and does not begin with a bracketed variant is valid whatever
\* the vocabulary and the framework flag, and no finding is reported for it
ArbitraryValid ==
    (cssLoaded /\ allowArbitraryValues) =>
        /\ traversed = << >> => \A t \in ArbitraryTokens : isValidClass(t)
        /\ \A k \in 1..Len(reports) : reports[k].className \notin ArbitraryTokens

\* w-[10px] has been validated without a finding in a project that neither
\* imports the framework nor declares the name
ArbitraryPassed ==
    /\ project = OneFile(PlainRule)
    /\ allowArbitraryValues
    /\ traversed = <<ClassAttribute(<<"w","-","[","1","0","p","x","]">>)>>
    /\ reports = << >>

\* the stylesheets read
ParsedTexts == {readFileSync(parsedLog[k]) : k \in 1..Len(parsedLog)}

ColourNames == {<<"p","r","i","m","a","r","y">>, <<"s","e","c","o","n","d","a","r","y">>, <<"r","e","d","-","5","0","0">>, <<"b","l","a","c","k">>}

\* a text that holds another
Contains(s, part) ==
    \E i \in 1..(Len(s) - Len(part) + 1) : SubSeq(s, i, i + Len(part) - 1) = part

\* no stylesheet read names the framework
NoFrameworkImport == \A text \in ParsedTexts : ~Contains(text, <<"t","a","i","l","w","i","n","d">>)

\* C4 as stated, for the projects that do not import the framework: bg-X is
\* valid for every declared --color-X, and bg-Y is invalid for every colour Y
\* that no theme variable and no selector declares
UndeclaredColourInvalid ==
    (cssLoaded /\ traversed = << >> /\ NoFrameworkImport) =>
        \A X \in ColourNames :
            IF <<"c","o","l","o","r","-">> \o X \in foundThemeVariables
            THEN isValidClass(<<"b","g","-">> \o X)
            ELSE <<"b","g","-">> \o X \notin customClasses => ~isValidClass(<<"b","g","-">> \o X)

\* C4: bg-X is valid for every declared --color-X even without a framework
\* import, and bg-Y for a colour Y declared nowhere is valid exactly when the
\* framework was detected, which a theme block alone brings about, and the
\* classifier knows bg-Y; with only the theme block declaring
\* --color-primary, bg-primary and bg-black are valid and bg-secondary is not
DeclaredColourValid ==
    (cssLoaded /\ traversed = << >>) =>
        /\ \A X \in ColourNames :
              IF <<"c","o","l","o","r","-">> \o X \in foundThemeVariables
              THEN isValidClass(<<"b","g","-">> \o X)
              ELSE <<"b","g","-">> \o X \notin customClasses =>
                       (isValidClass(<<"b","g","-">> \o X)
                            <=> (hasTailwindImport /\ TailwindUtility(<<"b","g","-">> \o X)))
        /\ project = OneFile(PrimaryText) =>
              /\ NoFrameworkImport
              /\ isValidClass(<<"b","g","-","p","r","i","m","a","r","y">>)
              /\ isValidClass(<<"b","g","-","b","l","a","c","k">>)
              /\ ~isValidClass(<<"b","g","-","s","e","c","o","n","d","a","r","y">>)

\* bg-primary has been validated without a finding against the theme block
\* alone
PrimaryPassed ==
    /\ project = OneFile(PrimaryText)
    /\ traversed = <<ClassAttribute(<<"b","g","-","p","r","i","m","a","r","y">>)>>
    /\ reports = << >>

\* the names a theme variable of one stylesheet read derives and a selector
\* of a stylesheet read declares
DeclaredBothWays ==
    (UNION {UNION {generateUtilitiesFromVariable(v, {}) :
                     v \in Extractions[text].foundThemeVariables} : text \in ParsedTexts})
    \cap (UNION {ExplicitClasses[text] : text \in ParsedTexts})

\* C5: a name that a theme variable derives and a selector declares, in one
\* stylesheet or in two and in either order, is in the vocabulary and valid
\* once the index is built, and no finding is reported for it
ExplicitPrecedence ==
    cssLoaded =>
        /\ traversed = << >> =>
              \A n \in DeclaredBothWays \cap Tokens :
                  n \in customClasses /\ n \in validClasses /\ isValidClass(n)
        /\ <<"t","e","x","t","-","b","u","t","t","o","n">> \in customClasses =>
              \A k \in 1..Len(reports) : reports[k].className # <<"t","e","x","t","-","b","u","t","t","o","n">>

\* text-button, declared by the selector before the theme variable in one
\* stylesheet, has been validated without a finding
ButtonPassed ==
    /\ project = OneFile(RuleButton \o ThemeButton)
    /\ DeclaredBothWays = {<<"t","e","x","t","-","b","u","t","t","o","n">>}
    /\ traversed = <<ClassAttribute(<<"t","e","x","t","-","b","u","t","t","o","n">>)>>
    /\ reports = << >>

\* C6: a chain of variants in front of a utility has the utility as its base
\* class and is valid exactly when the utility is
ChainsValidateAsBase ==
    (cssLoaded /\ traversed = << >>) =>
        \A c \in Chains(MaxChain) \ {<< >>}, u \in Utilities :
            /\ BaseClass(c \o u) = u
            /\ isValidClass(c \o u) = isValidClass(u)

\* C7: when no stylesheet read brought the framework flag up, a token is
\* valid only as an allowed arbitrary value or by its cleaned form or its
\* base class being in the vocabulary, whatever the classifier says of it,
\* and a finding is reported for every other token validated
ClassifierUnused ==
    (cssLoaded /\ ~hasTailwindImport) =>
        /\ traversed = << >> =>
              \A t \in Tokens :
                  isValidClass(t) <=>
                      \/ allowArbitraryValues /\ ArbitraryValue(StripImportant(t))
                      \/ StripImportant(t) \in validClasses
                      \/ /\ BaseClass(t) # Null
                         /\ StripImportant(BaseClass(t)) \in validClasses
        /\ \A k \in 1..Len(traversed) :
              \A j \in 1..Len(SiteTokens(traversed[k])) :
                  LET t == SiteTokens(traversed[k])[j]
                  IN  (/\ ~(allowArbitraryValues /\ ArbitraryValue(StripImportant(t)))
                       /\ StripImportant(t) \notin validClasses
                       /\ BaseClass(t) = Null \/ StripImportant(BaseClass(t)) \notin validClasses)
                          => \E i \in 1..Len(reports) :
                                 reports[i].site = k /\ reports[i].className = t

\* flex, which the classifier knows, has been reported in a project that
\* does not import the framework
FlexReported ==
    /\ project = OneFile(PlainRule)
    /\ ~hasTailwindImport
    /\ TailwindUtility(<<"f","l","e","x">>)
    /\ traversed = <<ClassAttribute(<<"f","l","e","x">>)>>
    /\ reports = <<[site |-> 1, arg |-> 1, className |-> <<"f","l","e","x">>]>>

\* C8: the selector .sm\:bg-primary\/50 is extracted as sm:bg-primary/50,
\* the name without its backslashes, and that token is valid while the
\* selector as written and the parts of the name are not
EscapedRoundTrip ==
    (cssLoaded /\ project = OneFile(EscapedText)) =>
        /\ ExplicitClasses[EscapedText] = {<<"s","m",":","b","g","-","p","r","i","m","a","r","y","/","5","0">>}
        /\ customClasses = {<<"s","m",":","b","g","-","p","r","i","m","a","r","y","/","5","0">>}
        /\ isValidClass(<<"s","m",":","b","g","-","p","r","i","m","a","r","y","/","5","0">>)
        /\ ~isValidClass(<<"b","g","-","p","r","i","m","a","r","y","/","5","0">>)
        /\ ~isValidClass(<<"s","m",":","b","g","-","p","r","i","m","a","r","y">>)
        /\ \A k \in 1..Len(reports) : reports[k].className # <<"s","m",":","b","g","-","p","r","i","m","a","r","y","/","5","0">>

\* sm:bg-primary/50 has been validated without a finding
EscapedPassed ==
    /\ project = OneFile(EscapedText)
    /\ traversed = <<ClassAttribute(<<"s","m",":","b","g","-","p","r","i","m","a","r","y","/","5","0">>)>>
    /\ reports = << >>

\* the names the selectors of NineEscapes stand for
NineNames == {<<"a",":","b">>, <<"c","/","d">>, <<"e",".","f">>, <<"g","[","h","]">>, <<"i","(","j",")">>, <<"k","-","l">>, <<"m","\\","n">>}

\* C9: every selector whose name holds one of the nine escapes is extracted
\* without its backslashes into the explicit set of its stylesheet and into
\* the custom classes
NineEscapesExtracted ==
    (cssLoaded /\ project = OneFile(NineEscapes)) =>
        /\ NineNames \subseteq ExplicitClasses[NineEscapes]
        /\ NineNames \subseteq customClasses

\* C10: the findings of a site are the tokens it hands over that are not
\* valid, one finding for each occurrence in the order of the tokens, and
\* none for a valid token; with the framework imported and .custom-badge
\* declared, "flex custom-badge unknown-xyz" has one finding, for unknown-xyz
PerOccurrence ==
    /\ \A k \in 1..Len(traversed) :
          FindingsAt(k) = SelectSeq(SiteTokens(traversed[k]), LAMBDA c : ~isValidClass(c))
    /\ \A k \in 1..Len(reports) : reports[k].site \in 1..Len(traversed)
    /\ (/\ project = OneFile(BadgeText)
        /\ traversed = <<ClassAttribute(<<"f","l","e","x"," ","c","u","s","t","o","m","-","b","a","d","g","e"," ","u","n","k","n","o","w","n","-","x","y","z">>)>>)
           => reports = <<[site |-> 1, arg |-> 1, className |-> <<"u","n","k","n","o","w","n","-","x","y","z">>]>>

\* unknown-xyz, three times in one attribute, has been reported three times
ReportedThrice ==
    /\ project = OneFile(BadgeText)
    /\ traversed = <<ClassAttribute(<<" ","u","n","k","n","o","w","n","-","x","y","z"," "," ","u","n","k","n","o","w","n","-","x","y","z","\n","f","l","e","x","\t","u","n","k","n","o","w","n","-","x","y","z"," ">>)>>
    /\ FindingsAt(1) = <<<<"u","n","k","n","o","w","n","-","x","y","z">>, <<"u","n","k","n","o","w","n","-","x","y","z">>, <<"u","n","k","n","o","w","n","-","x","y","z">>>>

\* C11: every class name the customClasses option lists is in the vocabulary
\* once the index is built and valid, and no finding is reported for it
ListedValid ==
    cssLoaded =>
        /\ \A k \in 1..Len(project.customClasses) :
              /\ project.customClasses[k] \in validClasses
              /\ isValidClass(project.customClasses[k])
        /\ \A k \in 1..Len(reports) : reports[k].className \notin Range(project.customClasses)

\* C12: the stylesheets are resolved once in a run: resolution begins only
\* while the index is not built and nothing has been read, a site is
\* validated only once the index is built, and from then on the index stays
\* built, no file is read and the vocabulary is the same
LoadedOnce ==
    [][ /\ (pc = "ready" /\ pc' = "parsing") => (~cssLoaded /\ parsedLog = << >>)
        /\ (traversed' # traversed /\ Validated(traversed'[Len(traversed')])) => cssLoaded
        /\ cssLoaded => /\ cssLoaded'
                        /\ pc' = "ready"
                        /\ parsedLog' = parsedLog
                        /\ visited' = visited
                        /\ validClasses' = validClasses
                        /\ customClasses' = customClasses
                        /\ foundThemeVariables' = foundThemeVariables
                        /\ hasTailwindImport' = hasTailwindImport ]_vars

\* two sites have been validated after one reading of the stylesheet
ValidatedTwice ==
    /\ project = OneFile(BadgeText)
    /\ Len(traversed) = 2
    /\ Validated(traversed[1])
    /\ Validated(traversed[2])
    /\ parsedLog = <<PathA>>
    /\ Len(reports) > 1

\* C13: in every step customClasses, validClasses and foundThemeVariables
\* keep the names they hold, and once the index is built no step changes
\* them or the framework flag
OnlyAdditions ==
    [][ /\ customClasses \subseteq customClasses'
        /\ validClasses \subseteq validClasses'
        /\ foundThemeVariables \subseteq foundThemeVariables'
        /\ cssLoaded => UNCHANGED <<customClasses, validClasses, foundThemeVariables,
                                    hasTailwindImport>> ]_vars

\* the sets have grown over two stylesheets and a site has been validated
\* against them
GrownAndUsed ==
    /\ project = TwoFiles(ImportSecond \o ThemeButton, RuleButton)
    /\ parsedLog = <<PathA, PathB>>
    /\ foundThemeVariables = {<<"t","e","x","t","-","b","u","t","t","o","n">>}
    /\ validClasses = customClasses
    /\ <<"t","e","x","t","-","b","u","t","t","o","n">> \in validClasses
    /\ traversed # << >>
    /\ reports # << >>

\* the stylesheets a session over project p reads, and the index it builds
\* from them (what C2 establishes for the session in hand)
ExistsIn(p, path) == path \in DOMAIN p.files \/ path \in p.dirs

TargetIn(p, r) ==
    WithExtension(r, {k \in 1..Len(possibleExtensions) :
                        ExistsIn(p, r.fullPath \o possibleExtensions[k])})

ImportedIn(p, path) ==
    {TargetIn(p, Resolutions[path][importPath]) :
       importPath \in {x \in Range(ImportPaths[p.files[path]]) :
                         StartsWith(x, <<".","/">>) \/ StartsWith(x, <<".",".","/">>)}}
    \cap DOMAIN p.files

RECURSIVE ClosureIn(_, _)
ClosureIn(p, S) ==
    LET T == S \cup UNION {ImportedIn(p, path) : path \in S}
    IN  IF T = S THEN S ELSE ClosureIn(p, T)

ReachableIn(p) ==
    LET cssPath == resolve(projectRoot, p.cssFile)
    IN  IF cssPath \in DOMAIN p.files THEN ClosureIn(p, {cssPath}) ELSE {}

IndexOver(p, paths) ==
    [validClasses |-> UNION {Extractions[p.files[path]].customClasses : path \in paths},
     foundThemeVariables |->
         UNION {Extractions[p.files[path]].foundThemeVariables : path \in paths},
     hasTailwindImport |-> \E path \in paths : Detections[p.files[path]][FALSE]]

IndexOf(p) == IndexOver(p, ReachableIn(p))

\* the verdict of isValidClass over an index
ValidOver(x, allow, className, cleanClassName, baseClass, cleanBaseClass) ==
    IF ArbitraryValue(cleanClassName) /\ allow THEN TRUE
    ELSE IF cleanClassName \in x.validClasses THEN TRUE
    ELSE IF Truthy(baseClass) /\ cleanBaseClass \in x.validClasses THEN TRUE
    ELSE IF Truthy(baseClass) /\ x.hasTailwindImport /\ TailwindUtility(cleanBaseClass)
    THEN \/ ~OverridableUtility(cleanBaseClass)
         \/ ~hasThemeOverride(cleanBaseClass, x.foundThemeVariables)
    ELSE IF x.hasTailwindImport /\ TailwindUtility(className)
    THEN \/ ~OverridableUtility(cleanClassName)
         \/ ~hasThemeOverride(cleanClassName, x.foundThemeVariables)
    ELSE FALSE

ValidIn(x, allow, className) ==
    ValidOver(x, allow, className, StripImportant(className), BaseClass(className),
              StripImportant(BaseClass(className)))

\* the session in hand builds the index of its project and gives its verdicts
IndexAsBuilt ==
    (cssLoaded /\ traversed = << >>) =>
        /\ IndexOf(project) = [validClasses |-> validClasses,
                               foundThemeVariables |-> foundThemeVariables,
                               hasTailwindImport |-> hasTailwindImport]
        /\ \A t \in SourceTokens : isValidClass(t) = ValidIn(IndexOf(project), allowArbitraryValues, t)

\* q is p with one or more of its stylesheets missing or unreadable
Degrades(q, p) ==
    /\ q # p
    /\ q.cssFile = p.cssFile
    /\ q.customClasses = p.customClasses
    /\ DOMAIN q.files \subseteq DOMAIN p.files
    /\ \A f \in DOMAIN q.files : q.files[f] = p.files[f]
    /\ p.dirs \subseteq q.dirs
    /\ (q.dirs \ p.dirs) \subseteq DOMAIN p.files

\* C14: a token that a session finds valid while stylesheets of its project
\* are missing or unreadable is valid in the session over the same project
\* with every stylesheet readable
FailuresOnlyShrink ==
    (cssLoaded /\ traversed = << >>) =>
        \A p \in {full \in Projects : Degrades(project, full)} :
            \A t \in SourceTokens :
                isValidClass(t) => ValidIn(IndexOf(p), allowArbitraryValues, t)

\* a missing root leaves the index empty; the files read are the readable ones
\* among those taken from the queue, each with the readable files it imports,
\* and only they contribute
DegradedIndex ==
    /\ (pc = "parsing" /\ ~existsSync(resolve(projectRoot, project.cssFile))) => cssQueue = << >>
    /\ (cssLoaded /\ ~Readable(resolve(projectRoot, project.cssFile))) =>
           /\ validClasses = {}
           /\ customClasses = {}
           /\ foundThemeVariables = {}
           /\ ~hasTailwindImport
           /\ parsedLog = << >>
    /\ cssLoaded =>
           /\ Range(parsedLog) = visited \cap DOMAIN project.files
           /\ \A path \in Range(parsedLog) : ImportedFrom(path) \subseteq Range(parsedLog)
           /\ validClasses =
                  UNION {Extractions[readFileSync(path)].customClasses : path \in Range(parsedLog)}
           /\ foundThemeVariables =
                  UNION {Extractions[readFileSync(path)].foundThemeVariables :
                           path \in Range(parsedLog)}

\* a turn of the loop on a path that cannot be read records the path and goes
\* on with the rest of the queue; a turn on a recorded path only drops it
SkipsUnreadable ==
    (pc = "parsing" /\ cssQueue # << >>) =>
        /\ (Head(cssQueue) \notin visited /\ ~Readable(Head(cssQueue))) =>
               /\ pc' = "parsing"
               /\ cssQueue' = Tail(cssQueue)
               /\ visited' = visited \cup {Head(cssQueue)}
               /\ UNCHANGED <<customClasses, validClasses, foundThemeVariables,
                              hasTailwindImport, parsedLog, cssLoaded>>
        /\ Head(cssQueue) \in visited =>
               /\ pc' = "parsing"
               /\ cssQueue' = Tail(cssQueue)
               /\ UNCHANGED <<visited, customClasses, validClasses, foundThemeVariables,
                              hasTailwindImport, parsedLog, cssLoaded>>

\* C15: a configured stylesheet that does not exist leaves an empty
\* vocabulary and the framework flag false; a queued path whose read throws
\* adds nothing, is recorded as visited and not read again, and the loop goes
\* on to parse every other file in the queue and every file queued later
NonFatal == []DegradedIndex /\ [][SkipsUnreadable]_vars

\* a.css imports the directory s and then b.css, which imports s/c.css: the
\* read of s has thrown and the three stylesheets are parsed
DirectorySkipped ==
    /\ project = GraphProject(6, 3, 1)
    /\ cssLoaded
    /\ DirS \in visited
    /\ parsedLog = <<PathA, PathB, PathC>>
    /\ validClasses = {<<"i","n","-","a">>, <<"i","n","-","b">>, <<"i","n","-","c">>}
    /\ reports # << >>

\* a default scale slot that the theme variables found redefine
RedefinedSlot(c) == OverridableUtility(c) /\ hasThemeOverride(c, foundThemeVariables)

\* what the fallback looks at: the base without its important marker when the
\* token has one, else the token without its important marker
FallbackSubject(t) ==
    IF Truthy(BaseClass(t)) THEN StripImportant(BaseClass(t)) ELSE StripImportant(t)

\* the token is not accepted as an arbitrary value or through the vocabulary
BeyondVocabulary(t) ==
    /\ ~(ArbitraryValue(StripImportant(t)) /\ allowArbitraryValues)
    /\ StripImportant(t) \notin validClasses
    /\ ~(Truthy(BaseClass(t)) /\ StripImportant(BaseClass(t)) \in validClasses)

\* C16: with the framework imported, a token that neither is in the
\* vocabulary nor has its base there is valid exactly when its base, or the
\* token itself when it has no base, matches the classifier and is not a
\* default scale slot that the theme variables redefine
StructuralFallback ==
    (cssLoaded /\ traversed = << >> /\ hasTailwindImport) =>
        \A t \in SourceTokens :
            BeyondVocabulary(t) =>
                (isValidClass(t) <=>
                    /\ TailwindUtility(FallbackSubject(t))
                    /\ ~RedefinedSlot(FallbackSubject(t)))

\* the tokens of the site handled last
HandledTokens ==
    IF cssLoaded /\ traversed # << >> THEN Range(SiteTokens(traversed[Len(traversed)])) ELSE {}

\* the token, after an important marker if it has one, begins with a prefix of
\* the list
CarriesPrefix(t) == PrefixHits(prefixes, StripImportant(t)) # {}

\* r is what remains of t after its important marker and leading prefixes
Remainder(r, t) ==
    /\ Len(r) <= Len(StripImportant(t))
    /\ r = SubSeq(StripImportant(t), Len(StripImportant(t)) - Len(r) + 1, Len(StripImportant(t)))
    /\ PrefixHits(prefixes, r) = {}

\* C17 as stated: getBaseClass gives null exactly for the tokens that carry
\* no recognized prefix, and otherwise the token without its important marker
\* and leading prefixes
NullWithoutPrefix ==
    \A t \in HandledTokens :
        /\ BaseClass(t) = Null <=> ~CarriesPrefix(t)
        /\ BaseClass(t) # Null => Remainder(BaseClass(t), t)

\* C17: getBaseClass gives null exactly for the tokens that have neither an
\* important marker in front nor a recognized prefix, and otherwise the token
\* without its important marker and leading prefixes: for !flex it gives flex
NullWhenUnchanged ==
    \A t \in HandledTokens :
        /\ BaseClass(t) = Null <=> (~CarriesPrefix(t) /\ ~StartsWith(t, <<"!">>))
        /\ BaseClass(t) # Null => Remainder(BaseClass(t), t)

\* !flex has been validated, and so has !hover:sm:flex in another file
ImportantStripped ==
    /\ cssLoaded
    /\ project = OneFile(BadgeText)
    /\ traversed = <<ClassAttribute(<<"!","f","l","e","x">>)>>
    /\ HandledTokens = {<<"!","f","l","e","x">>}
    /\ BaseClass(<<"!","f","l","e","x">>) = <<"f","l","e","x">>
    /\ BaseClass(<<"!","h","o","v","e","r",":","s","m",":","f","l","e","x">>) = <<"f","l","e","x">>
    /\ reports = << >>

\* an import of the framework, and a relative import
FrameworkImport(importPath) ==
    importPath = <<"t","a","i","l","w","i","n","d","c","s","s">> \/ StartsWith(importPath, <<"t","a","i","l","w","i","n","d","c","s","s","/">>)

RelativeImport(importPath) == StartsWith(importPath, <<".","/">>) \/ StartsWith(importPath, <<".",".","/">>)

\* the file a relative import written in the stylesheet at path names: the
\* resolved path, or when that has no extension the first of .css, .scss,
\* .sass, .less that makes it the path of something existing
Named(path, importPath) ==
    LET r == Resolutions[path][importPath]
        tried == {k \in 1..4 : existsSync(r.fullPath \o <<<<".","c","s","s">>, <<".","s","c","s","s">>, <<".","s","a","s","s">>, <<".","l","e","s","s">>>>[k])}
    IN  IF r.extname = << >> /\ tried # {}
        THEN r.fullPath \o <<<<".","c","s","s">>, <<".","s","c","s","s">>, <<".","s","a","s","s">>, <<".","l","e","s","s">>>>[Least(tried)]
        ELSE r.fullPath

\* the imports of the stylesheet at path that are to be queued, in order
ToQueue(path, seen) ==
    LET importPaths == ImportPaths[readFileSync(path)]
        kept == SelectSeq([k \in 1..Len(importPaths) |-> k],
                          LAMBDA k : /\ ~FrameworkImport(importPaths[k])
                                     /\ RelativeImport(importPaths[k])
                                     /\ existsSync(Named(path, importPaths[k]))
                                     /\ Named(path, importPaths[k]) \notin seen)
    IN  [j \in 1..Len(kept) |-> Named(path, importPaths[kept[j]])]

\* every path in the queue is the configured stylesheet or exists and is
\* named by a relative import of a stylesheet that has been read
QueueMembers ==
    \A k \in 1..Len(cssQueue) :
        \/ cssQueue[k] = resolve(projectRoot, project.cssFile)
        \/ /\ existsSync(cssQueue[k])
           /\ \E path \in Range(parsedLog) :
                 \E importPath \in Range(ImportPaths[readFileSync(path)]) :
                     /\ RelativeImport(importPath)
                     /\ ~FrameworkImport(importPath)
                     /\ cssQueue[k] = Named(path, importPath)

\* a turn of the loop leaves the rest of the queue followed by the imports of
\* the stylesheet read that are relative, exist and are not visited; a turn
\* that reads nothing adds nothing
QueuedOnlyIf ==
    (pc = "parsing" /\ cssQueue # << >> /\ cssQueue' # cssQueue) =>
        cssQueue' = Tail(cssQueue) \o
            (IF Head(cssQueue) \notin visited /\ Readable(Head(cssQueue))
             THEN ToQueue(Head(cssQueue), visited')
             ELSE << >>)

\* C18: an import is queued exactly when it is relative, the path it names
\* (with the first of .css, .scss, .sass, .less that exists appended when it
\* has no extension) exists and is not visited; imports of the framework and
\* imports that are not relative are never queued, and every path in the
\* queue is the configured stylesheet or an existing relatively imported one
ImportFiltering == []QueueMembers /\ [][QueuedOnlyIf]_vars

\* a.css imports "./b", which is queued as b.css; and in another project the
\* framework, a missing file and a bare name, none of which is queued
ProbedQueued ==
    /\ project = GraphProject(4, 1, 1)
    /\ pc = "parsing"
    /\ parsedLog = <<PathA>>
    /\ cssQueue = <<PathB>>
    /\ ToQueue(PathA, {PathA}) = <<PathB>>
    /\ ImportPaths[RootTexts[7]] = <<<<"t","a","i","l","w","i","n","d","c","s","s">>, <<".","/","m","i","s","s","i","n","g",".","c","s","s">>, <<"b",".","c","s","s">>>>

\* the prefix table: the prefix of a theme variable and what replaces it in
\* the names of its family
Family(prefix, stems) == [prefix |-> prefix, stems |-> stems]

PrefixTable == {
    Family(<<"c","o","l","o","r","-">>, {<<"t","e","x","t","-">>, <<"b","g","-">>, <<"b","o","r","d","e","r","-">>, <<"d","e","c","o","r","a","t","i","o","n","-">>, <<"o","u","t","l","i","n","e","-">>, <<"r","i","n","g","-">>,
                       <<"r","i","n","g","-","o","f","f","s","e","t","-">>, <<"s","h","a","d","o","w","-">>, <<"a","c","c","e","n","t","-">>, <<"c","a","r","e","t","-">>, <<"f","i","l","l","-">>, <<"s","t","r","o","k","e","-">>,
                       <<"f","r","o","m","-">>, <<"v","i","a","-">>, <<"t","o","-">>,
                       <<"b","o","r","d","e","r","-","t","-">>, <<"b","o","r","d","e","r","-","r","-">>, <<"b","o","r","d","e","r","-","b","-">>, <<"b","o","r","d","e","r","-","l","-">>,
                       <<"b","o","r","d","e","r","-","x","-">>, <<"b","o","r","d","e","r","-","y","-">>, <<"b","o","r","d","e","r","-","s","-">>, <<"b","o","r","d","e","r","-","e","-">>,
                       <<"b","o","r","d","e","r","-","i","s","-">>, <<"b","o","r","d","e","r","-","i","e","-">>, <<"b","o","r","d","e","r","-","b","s","-">>, <<"b","o","r","d","e","r","-","b","e","-">>,
                       <<"d","i","v","i","d","e","-">>}),
    Family(<<"s","p","a","c","i","n","g","-">>, {<<"p","-">>, <<"m","-">>, <<"p","x","-">>, <<"p","y","-">>, <<"p","t","-">>, <<"p","r","-">>, <<"p","b","-">>, <<"p","l","-">>,
                         <<"m","x","-">>, <<"m","y","-">>, <<"m","t","-">>, <<"m","r","-">>, <<"m","b","-">>, <<"m","l","-">>,
                         <<"g","a","p","-">>, <<"s","p","a","c","e","-","x","-">>, <<"s","p","a","c","e","-","y","-">>}),
    Family(<<"a","n","i","m","a","t","e","-">>, {<<"a","n","i","m","a","t","e","-">>}),
    Family(<<"s","h","a","d","o","w","-">>, {<<"s","h","a","d","o","w","-">>}),
    Family(<<"r","a","d","i","u","s","-">>, {<<"r","o","u","n","d","e","d","-">>}),
    Family(<<"t","e","x","t","-">>, {<<"t","e","x","t","-">>}),
    Family(<<"f","o","n","t","-","s","i","z","e","-">>, {<<"t","e","x","t","-">>}),
    Family(<<"f","o","n","t","-","f","a","m","i","l","y","-">>, {<<"f","o","n","t","-">>}),
    Family(<<"f","o","n","t","-","w","e","i","g","h","t","-">>, {<<"f","o","n","t","-">>}) }

RowsOf(varName) == {row \in PrefixTable : StartsWith(varName, row.prefix)}

FamilyOf(varName) ==
    UNION {{stem \o Substring(varName, Len(row.prefix)) : stem \in row.stems} :
             row \in RowsOf(varName)}

\* the generators that derive a name from this variable when nothing is
\* declared explicitly
Firing(varName) ==
    {k \in 1..9 :
       <<generateColorUtilities(varName, {}), generateAnimationUtilities(varName, {}),
         generateShadowUtilities(varName, {}), generateRadiusUtilities(varName, {}),
         generateSpacingUtilities(varName, {}), generateTextUtilities(varName, {}),
         generateFontFamilyUtilities(varName, {}), generateFontWeightUtilities(varName, {}),
         generateFontSizeUtilities(varName, {})>>[k] # {}}

\* the theme variables of the stylesheets read, each with the utilities its
\* stylesheet declares explicitly
DeclaredVariables ==
    UNION {{[varName |-> v, explicitClasses |-> ExplicitClasses[readFileSync(path)]] :
              v \in Extractions[readFileSync(path)].foundThemeVariables} :
             path \in Range(parsedLog)}

\* C19: for every theme variable read, what generateUtilitiesFromVariable
\* derives is the family of its prefix in the table (28 names for color-, 17
\* for spacing-, one for the others) less the names its stylesheet declares
\* explicitly, which are in the vocabulary as well; at most one generator
\* fires, and a variable of no listed prefix derives nothing and the index is
\* built all the same
FollowsPrefixTable ==
    (cssLoaded /\ traversed = << >>) =>
        \A d \in DeclaredVariables :
            /\ generateUtilitiesFromVariable(d.varName, {}) = FamilyOf(d.varName)
            /\ generateUtilitiesFromVariable(d.varName, d.explicitClasses)
                   = FamilyOf(d.varName) \ d.explicitClasses
            /\ FamilyOf(d.varName) \subseteq validClasses
            /\ Cardinality(Firing(d.varName)) <= 1
            /\ Cardinality(RowsOf(d.varName)) <= 1
            /\ RowsOf(d.varName) = {} => generateUtilitiesFromVariable(d.varName, {}) = {}
            /\ StartsWith(d.varName, <<"c","o","l","o","r","-">>) => Cardinality(FamilyOf(d.varName)) = 28
            /\ StartsWith(d.varName, <<"s","p","a","c","i","n","g","-">>) => Cardinality(FamilyOf(d.varName)) = 17
            /\ d.varName \in foundThemeVariables

\* a theme with a variable of each of the nine prefixes and two of none has
\* been read, beside a rule for bg-x: 28 + 17 + 5 names are in the vocabulary,
\* shadow-x and text-x each derived from two variables
FamiliesGenerated ==
    /\ project = OneFile(RuleBgX \o FamiliesTheme)
    /\ cssLoaded
    /\ traversed = << >>
    /\ Cardinality(foundThemeVariables) = 11
    /\ {<<"s","i","z","e","-","x">>, <<"c","o","l","o","r","s","-","x">>} \subseteq foundThemeVariables
    /\ Cardinality(validClasses) = 50
    /\ {<<"b","g","-","x">>, <<"d","i","v","i","d","e","-","x">>, <<"s","p","a","c","e","-","y","-","x">>, <<"a","n","i","m","a","t","e","-","x">>, <<"s","h","a","d","o","w","-","x">>, <<"r","o","u","n","d","e","d","-","x">>, <<"t","e","x","t","-","x">>,
        <<"t","e","x","t","-","y">>, <<"f","o","n","t","-","f">>, <<"f","o","n","t","-","w">>} \subseteq validClasses
    /\ {<<"s","i","z","e","-","x">>, <<"c","o","l","o","r","s","-","x">>} \cap validClasses = {}

\* the maximal runs of characters that are not white space, in order
RunStarts(s) ==
    {i \in 1..Len(s) : s[i] \notin WhiteSpace /\ (i = 1 \/ s[i - 1] \in WhiteSpace)}

RunEnd(s, i) == Least({j \in i..Len(s) : j = Len(s) \/ s[j + 1] \in WhiteSpace})

RunsFrom(s, starts) == [k \in 1..Len(starts) |-> SubSeq(s, starts[k], RunEnd(s, starts[k]))]

Runs(s) == RunsFrom(s, SortedSeq(RunStarts(s)))

\* the literal segments of a template with one space at each interpolation
SpacedSegments(node) ==
    Join([i \in 1..Len(node.quasis) |->
            IF i < Len(node.quasis) THEN node.quasis[i] \o <<" ">> ELSE node.quasis[i]])

\* the nodes of the site handled last
HandledNodes ==
    IF cssLoaded /\ traversed # << >> /\ Validated(traversed[Len(traversed)])
    THEN Range(NodesOf(traversed[Len(traversed)]))
    ELSE {}

\* C20: the tokens of a string literal are its maximal runs of characters
\* that are not white space, in order, none empty; those of a template are
\* the runs of its first segment, then of its second, and so on, no token
\* holding text of two segments, which are the runs of the segments joined
\* with one space at each interpolation
TokensAreRuns ==
    \A node \in HandledNodes :
        /\ (node.type = "Literal" /\ node.typeof = "string") =>
               ClassNamesIn[node] = Runs(node.value)
        /\ node.type = "TemplateLiteral" =>
               /\ ClassNamesIn[node] = Runs(SpacedSegments(node))
               /\ ClassNamesIn[node] =
                      Join([i \in 1..Len(node.quasis) |-> Runs(node.quasis[i])])
        /\ \A k \in 1..Len(ClassNamesIn[node]) :
               /\ ClassNamesIn[node][k] # << >>
               /\ Range(ClassNamesIn[node][k]) \cap WhiteSpace = {}

\* the call cn("unknown-xyz", `p-4 nope-${x}in-b`, x) has been handled after
\* an attribute: nope- and in-b are two tokens, and the text with blanks, a
\* line break and a tab of another file gives four
SegmentsApart ==
    /\ cssLoaded
    /\ Len(traversed) = 2
    /\ traversed[2].type = "CallExpression"
    /\ TemplateLiteral(<<<<"p","-","4"," ","n","o","p","e","-">>, <<"i","n","-","b">>>>, 1) \in HandledNodes
    /\ ClassNamesIn[TemplateLiteral(<<<<"p","-","4"," ","n","o","p","e","-">>, <<"i","n","-","b">>>>, 1)] = <<<<"p","-","4">>, <<"n","o","p","e","-">>, <<"i","n","-","b">>>>
    /\ ClassNamesIn[StringLiteral(<<" ","u","n","k","n","o","w","n","-","x","y","z"," "," ","u","n","k","n","o","w","n","-","x","y","z","\n","f","l","e","x","\t","u","n","k","n","o","w","n","-","x","y","z"," ">>)]
           = <<<<"u","n","k","n","o","w","n","-","x","y","z">>, <<"u","n","k","n","o","w","n","-","x","y","z">>, <<"f","l","e","x">>, <<"u","n","k","n","o","w","n","-","x","y","z">>>>
    /\ ClassNamesIn[StringLiteral(<< >>)] = << >>
    /\ \E k \in 1..Len(reports) : reports[k].className = <<"n","o","p","e","-">>

\* a stylesheet read so far holds one of the forms detectTailwindImport knows
FormRead == \E path \in Range(parsedLog) : Detections[readFileSync(path)][FALSE]

\* C21: while the index is built and after, hasTailwindImport is true exactly
\* when a stylesheet read so far holds a detection form, and no step turns it
\* from true to false
StickyDetection ==
    /\ [](hasTailwindImport <=> FormRead)
    /\ [][hasTailwindImport => hasTailwindImport']_vars

\* a.css holds a theme block and imports b.css, which holds no detection
\* form: the flag set by a.css is still set after b.css
SetBeforePlainFile ==
    /\ project = TwoFiles(ImportSecond \o ThemeButton, RuleButton)
    /\ cssLoaded
    /\ parsedLog = <<PathA, PathB>>
    /\ ~Detections[RuleButton][FALSE]
    /\ Detections[ImportSecond \o ThemeButton][FALSE]
    /\ hasTailwindImport
    /\ traversed # << >>

\* a text that ends with a bracketed value after a name and a hyphen
EndsInBracket(s) ==
    /\ Len(s) > 0
    /\ s[Len(s)] = "]"
    /\ \E i \in 2..(Len(s) - 2) : s[i] = "-" /\ s[i + 1] = "["
    /\ s[1] # "["

\* the tokens of the form utility-[value], with or without the important
\* marker, that carry no variant prefix
UtilityBracketTokens ==
    {t \in Tokens : /\ EndsInBracket(StripImportant(t))
                    /\ BaseClass(StripImportant(t)) = Null}

\* C22: with allowArbitraryValues false, a token of the form utility-[value]
\* that the stylesheets do not declare is invalid, with the framework
\* imported or not, and a finding is reported for it wherever it is validated
BracketsAlone ==
    (cssLoaded /\ ~allowArbitraryValues) =>
        /\ traversed = << >> =>
               \A t \in UtilityBracketTokens :
                   StripImportant(t) \notin validClasses => ~isValidClass(t)
        /\ \A k \in 1..Len(traversed) :
               \A t \in Range(SiteTokens(traversed[k])) \cap UtilityBracketTokens :
                   StripImportant(t) \notin validClasses => t \in Range(FindingsAt(k))

\* w-[10px] has been reported in a project that imports the framework
BracketReported ==
    /\ project = OneFile(BadgeText)
    /\ hasTailwindImport
    /\ ~allowArbitraryValues
    /\ traversed = <<ClassAttribute(<<"w","-","[","1","0","p","x","]">>)>>
    /\ <<"w","-","[","1","0","p","x","]">> \in UtilityBracketTokens
    /\ FindingsAt(1) = <<<<"w","-","[","1","0","p","x","]">>>>

\* C23: in every state, theme variables found imply the framework flag; so
\* does any custom class derived from a theme variable
ThemeImpliesFramework ==
    /\ foundThemeVariables # {} => hasTailwindImport
    /\ (\E path \in Range(parsedLog) :
          \E v \in Extractions[readFileSync(path)].foundThemeVariables :
              generateUtilitiesFromVariable(v, {}) \cap customClasses # {}) => hasTailwindImport

\* a stylesheet that holds a theme block and names the framework nowhere has
\* been read, and flex has been validated through the classifier
ThemeOnlyFlexPassed ==
    /\ project = OneFile(PrimaryText)
    /\ cssLoaded
    /\ foundThemeVariables = {<<"c","o","l","o","r","-","p","r","i","m","a","r","y">>}
    /\ <<"b","g","-","p","r","i","m","a","r","y">> \in validClasses
    /\ hasTailwindImport
    /\ ~Contains(PrimaryText, <<"t","a","i","l","w","i","n","d">>)
    /\ traversed = <<ClassAttribute(<<"f","l","e","x">>)>>
    /\ reports = << >>

\* what each stylesheet would add if the generators skipped nothing
Unskipped == Tabulated([cssContent \in Contents |-> ExtractGiven(cssContent, {})])

\* C24: once the index is built, every name that a theme variable of a
\* stylesheet read derives is in the vocabulary, skipped by the generator or
\* not, and each stylesheet adds what it would add if nothing were skipped
SkipUnobservable ==
    (cssLoaded /\ traversed = << >>) =>
        \A path \in Range(parsedLog) :
            /\ \A v \in Extractions[readFileSync(path)].foundThemeVariables :
                   generateUtilitiesFromVariable(v, {}) \subseteq validClasses
            /\ Extractions[readFileSync(path)].customClasses
                   = ExplicitClasses[readFileSync(path)]
                     \cup Unskipped[readFileSync(path)].customClasses

\* bg-x is declared by a rule of the stylesheet whose theme declares
\* --color-x: the generator skips it and it is in the vocabulary
SkippedAndPresent ==
    /\ project = OneFile(RuleBgX \o FamiliesTheme)
    /\ cssLoaded
    /\ Len(traversed) = 1
    /\ <<"b","g","-","x">> \in ExplicitClasses[RuleBgX \o FamiliesTheme]
    /\ <<"b","g","-","x">> \notin generateUtilitiesFromVariable(<<"c","o","l","o","r","-","x">>, ExplicitClasses[RuleBgX \o FamiliesTheme])
    /\ <<"b","g","-","x">> \in generateUtilitiesFromVariable(<<"c","o","l","o","r","-","x">>, {})
    /\ <<"b","g","-","x">> \in validClasses

\* what the fallback of isValidClass decides on: the base without its
\* important marker when the token has a base the classifier accepts, else
\* the token without its important marker
Decided(t) ==
    IF Truthy(BaseClass(t)) /\ TailwindUtility(StripImportant(BaseClass(t)))
    THEN StripImportant(BaseClass(t))
    ELSE StripImportant(t)

\* the verdict on t if no theme variable had been found
ValidUnsuppressed(t) ==
    ValidIn([validClasses |-> validClasses, foundThemeVariables |-> {},
             hasTailwindImport |-> hasTailwindImport], allowArbitraryValues, t)

\* C25: once the index is built, an overridable token other than rounded and
\* shadow that the theme variables override is in the vocabulary; and a token
\* that is invalid but would be valid had no theme variable been found is
\* decided on rounded with --radius-DEFAULT declared or on shadow with
\* --shadow-DEFAULT declared, the name not being in the vocabulary
OnlyDefaultSlots ==
    (cssLoaded /\ traversed = << >>) =>
        /\ \A c \in ClassNames \ {Null, <<"r","o","u","n","d","e","d">>, <<"s","h","a","d","o","w">>} :
               (OverridableUtility(c) /\ hasThemeOverride(c, foundThemeVariables)) =>
                   c \in validClasses
        /\ \A t \in SourceTokens :
               (~isValidClass(t) /\ ValidUnsuppressed(t)) =>
                   /\ Decided(t) \notin validClasses
                   /\ \/ Decided(t) = <<"r","o","u","n","d","e","d">> /\ <<"r","a","d","i","u","s","-","D","E","F","A","U","L","T">> \in foundThemeVariables
                      \/ Decided(t) = <<"s","h","a","d","o","w">> /\ <<"s","h","a","d","o","w","-","D","E","F","A","U","L","T">> \in foundThemeVariables

\* the theme redefines the default radius and shadow and two sized slots:
\* rounded and hover:shadow are invalid, rounded-sm, shadow-sm and font-bold
\* are in the vocabulary
DefaultsSuppressed ==
    /\ project = OneFile(DefaultsTheme)
    /\ cssLoaded
    /\ traversed = << >>
    /\ ~allowArbitraryValues
    /\ ~isValidClass(<<"r","o","u","n","d","e","d">>)
    /\ ~isValidClass(<<"h","o","v","e","r",":","s","h","a","d","o","w">>)
    /\ ValidUnsuppressed(<<"r","o","u","n","d","e","d">>)
    /\ hasThemeOverride(<<"r","o","u","n","d","e","d","-","s","m">>, foundThemeVariables)
    /\ {<<"r","o","u","n","d","e","d","-","s","m">>, <<"s","h","a","d","o","w","-","s","m">>, <<"f","o","n","t","-","b","o","l","d">>} \subseteq validClasses
    /\ isValidClass(<<"r","o","u","n","d","e","d","-","s","m">>)

\* p has the files of q, each adding the same and importing the same files,
\* in whatever order
Reordered(p, q) ==
    /\ p.cssFile = q.cssFile
    /\ p.dirs = q.dirs
    /\ DOMAIN p.files = DOMAIN q.files
    /\ \A f \in DOMAIN p.files :
          /\ Extractions[p.files[f]] = Extractions[q.files[f]]
          /\ Detections[p.files[f]] = Detections[q.files[f]]
          /\ Range(ImportPaths[p.files[f]]) = Range(ImportPaths[q.files[f]])

\* the index of the session in hand
Index ==
    [validClasses |-> validClasses, foundThemeVariables |-> foundThemeVariables,
     hasTailwindImport |-> hasTailwindImport]

\* C26: once the index is built, the custom classes, the theme variables and
\* the flag are the union of what each reachable readable stylesheet adds,
\* and they are those of every project that has the same files with their
\* imports in another order, as is the verdict on every token
OrderIrrelevant ==
    (cssLoaded /\ traversed = << >>) =>
        /\ Range(parsedLog) = ReachableIn(project)
        /\ customClasses = validClasses
        /\ Index = IndexOver(project, Range(parsedLog))
        /\ \A p \in Projects :
               Reordered(p, project) =>
                   /\ IndexOf(p) = Index
                   /\ \A t \in SourceTokens :
                          isValidClass(t) = ValidIn(IndexOf(p), allowArbitraryValues, t)

\* s/c.css was read before b.css, and the index is that of the project whose
\* a.css imports b.css first
ThirdReadFirst ==
    /\ project = ThreeFiles(ThirdBefore, RuleButton, BadgeText)
    /\ cssLoaded
    /\ traversed = << >>
    /\ parsedLog = <<PathA, PathC, PathB>>
    /\ Reordered(ThreeFiles(BeforeThird, RuleButton, BadgeText), project)
    /\ ThreeFiles(BeforeThird, RuleButton, BadgeText) # project
    /\ hasTailwindImport
    /\ validClasses = {<<"t","e","x","t","-","b","u","t","t","o","n">>, <<"c","u","s","t","o","m","-","b","a","d","g","e">>}

\* the tokens of the sources that are also there with an important marker
MarkedPairs == {t \in SourceTokens : ~StartsWith(t, <<"!">>) /\ (<<"!">> \o t) \in SourceTokens}

\* C27: once the index is built, a token and the same token behind an
\* important marker get the same verdict, whatever the vocabulary, the flag
\* and the option
MarkerTransparent ==
    (cssLoaded /\ traversed = << >>) =>
        \A t \in MarkedPairs : isValidClass(<<"!">> \o t) = isValidClass(t)

\* !hover:rounded is invalid where the theme redefines the default
\* radius, as hover:rounded would be; !flex and flex are valid there
MarkedReported ==
    /\ project = OneFile(DefaultsTheme)
    /\ cssLoaded
    /\ {<<"f","l","e","x">>, <<"h","o","v","e","r",":","r","o","u","n","d","e","d">>, <<"u","n","k","n","o","w","n","-","x","y","z">>, <<"s","m",":","h","o","v","e","r",":","w","-","[","1","0","p","x","]">>} \subseteq MarkedPairs
    /\ isValidClass(<<"!","f","l","e","x">>)
    /\ isValidClass(<<"f","l","e","x">>)
    /\ ~isValidClass(<<"h","o","v","e","r",":","r","o","u","n","d","e","d">>)
    /\ ~isValidClass(<<"!","h","o","v","e","r",":","r","o","u","n","d","e","d">>)
    /\ ~isValidClass(<<"!","u","n","k","n","o","w","n","-","x","y","z">>)

\* the names of the responsive, state, dark/light and media variants
ResponsiveNames == {<<"s","m">>, <<"m","d">>, <<"l","g">>, <<"x","l">>, <<"2","x","l">>}

StateNames == {
    <<"h","o","v","e","r">>, <<"f","o","c","u","s">>, <<"f","o","c","u","s","-","w","i","t","h","i","n">>, <<"f","o","c","u","s","-","v","i","s","i","b","l","e">>, <<"a","c","t","i","v","e">>, <<"v","i","s","i","t","e","d">>, <<"t","a","r","g","e","t">>,
    <<"f","i","r","s","t">>, <<"l","a","s","t">>, <<"o","n","l","y">>, <<"o","d","d">>, <<"e","v","e","n">>, <<"f","i","r","s","t","-","o","f","-","t","y","p","e">>, <<"l","a","s","t","-","o","f","-","t","y","p","e">>,
    <<"o","n","l","y","-","o","f","-","t","y","p","e">>, <<"e","m","p","t","y">>, <<"d","i","s","a","b","l","e","d">>, <<"e","n","a","b","l","e","d">>, <<"c","h","e","c","k","e","d">>, <<"i","n","d","e","t","e","r","m","i","n","a","t","e">>,
    <<"d","e","f","a","u","l","t">>, <<"r","e","q","u","i","r","e","d">>, <<"v","a","l","i","d">>, <<"i","n","v","a","l","i","d">>, <<"i","n","-","r","a","n","g","e">>, <<"o","u","t","-","o","f","-","r","a","n","g","e">>,
    <<"p","l","a","c","e","h","o","l","d","e","r","-","s","h","o","w","n">>, <<"a","u","t","o","f","i","l","l">>, <<"r","e","a","d","-","o","n","l","y">> }

SchemeNames == {<<"d","a","r","k">>, <<"l","i","g","h","t">>}

MediaNames == {<<"m","o","t","i","o","n","-","s","a","f","e">>, <<"m","o","t","i","o","n","-","r","e","d","u","c","e">>, <<"c","o","n","t","r","a","s","t","-","m","o","r","e">>, <<"c","o","n","t","r","a","s","t","-","l","e","s","s">>,
               <<"p","o","r","t","r","a","i","t">>, <<"l","a","n","d","s","c","a","p","e">>, <<"p","r","i","n","t">>}

VariantNames ==
    ResponsiveNames \cup StateNames \cup SchemeNames \cup MediaNames
    \cup {<<"g","r","o","u","p","-">> \o n : n \in StateNames} \cup {<<"p","e","e","r","-">> \o n : n \in StateNames}

\* a text that begins with one of these variants
PlainVariant(s) == \E n \in VariantNames : StartsWith(s, n \o <<":">>)

\* a text that begins with a group state variant that names its group
NamedGroupVariant(s) ==
    \E n \in StateNames :
        /\ StartsWith(s, <<"g","r","o","u","p","-">> \o n \o <<"/">>)
        /\ \E j \in (Len(n) + 9)..Len(s) :
              /\ s[j] = ":"
              /\ \A i \in (Len(n) + 8)..(j - 1) : s[i] \in WordChar \cup {"-"}

PlainVariantTokens == {t \in SourceTokens : PlainVariant(StripImportant(t))}
NamedGroupTokens == {t \in SourceTokens : NamedGroupVariant(StripImportant(t))}

\* the token is valid although the classifier rejects its base
ValidDespiteBase(t) ==
    ~TailwindUtility(StripImportant(BaseClass(t))) => isValidClass(t)

\* C28 as stated: with the framework imported, every token that begins with a
\* responsive, state, group or peer state, dark/light or media variant and
\* whose base the classifier rejects is valid
VariantValidates ==
    (cssLoaded /\ traversed = << >> /\ hasTailwindImport) =>
        \A t \in PlainVariantTokens \cup NamedGroupTokens : ValidDespiteBase(t)

\* C28: with the framework imported, every token that begins with a
\* responsive, state, group or peer state, dark/light or media variant
\* followed at once by a colon, and whose base the classifier rejects, is
\* valid: hover:unknown-xyz is valid where unknown-xyz is not
ColonVariantValidates ==
    (cssLoaded /\ traversed = << >> /\ hasTailwindImport) =>
        /\ \A t \in PlainVariantTokens : ValidDespiteBase(t)
        /\ <<"u","n","k","n","o","w","n","-","x","y","z">> \notin validClasses =>
               /\ ~isValidClass(<<"u","n","k","n","o","w","n","-","x","y","z">>)
               /\ isValidClass(<<"h","o","v","e","r",":","u","n","k","n","o","w","n","-","x","y","z">>)

\* hover:unknown-xyz has been validated without a finding where unknown-xyz
\* is invalid, and so have tokens of the other kinds of variant
VariantPassed ==
    /\ project = OneFile(BadgeText)
    /\ ~allowArbitraryValues
    /\ hasTailwindImport
    /\ traversed = <<ClassAttribute(<<"h","o","v","e","r",":","u","n","k","n","o","w","n","-","x","y","z">>)>>
    /\ reports = << >>
    /\ ~isValidClass(<<"u","n","k","n","o","w","n","-","x","y","z">>)
    /\ ~TailwindUtility(<<"u","n","k","n","o","w","n","-","x","y","z">>)
    /\ {<<"m","d",":","u","n","k","n","o","w","n","-","x","y","z">>, <<"d","a","r","k",":","u","n","k","n","o","w","n","-","x","y","z">>, <<"g","r","o","u","p","-","h","o","v","e","r",":","u","n","k","n","o","w","n","-","x","y","z">>,
        <<"p","e","e","r","-","f","o","c","u","s",":","u","n","k","n","o","w","n","-","x","y","z">>, <<"m","o","t","i","o","n","-","s","a","f","e",":","u","n","k","n","o","w","n","-","x","y","z">>, <<"s","m",":","h","o","v","e","r",":","w","-","[","1","0","p","x","]">>}
           \subseteq PlainVariantTokens
    /\ <<"g","r","o","u","p","-","h","o","v","e","r","/","i","t","e","m",":","w","-","[","1","0","p","x","]">> \in NamedGroupTokens

=============================================================================
